---------------------------- MODULE Spec2Model ----------------------------
(***************************************************************************)
(* Model of the pythera-ai/finops workflow steps: the report merge and     *)
(* day-over-day enrichment (merge_inputs / validate_data_quality of the    *)
(* 27_7 report flow), the fetch adapters that feed it and the previous-day *)
(* lookup that supplies its baseline.                                      *)
(*                                                                         *)
(* Python values are tagged records:                                       *)
(*   None -> [t |-> "none"],  a number -> [t |-> "num", m, e] (the exact   *)
(*   decimal m * 10^e, normalised), a str that is parsed -> [t |-> "str",  *)
(*   s] with s a sequence of one-character strings, a list -> [t |->       *)
(*   "list", items], a dict -> [t |-> "dict", d] with d a function from    *)
(*   its keys.  Floats are modelled by exact decimals; the inputs drawn    *)
(*   below are ones on which the two agree after round().                  *)
(***************************************************************************)
EXTENDS Integers, Sequences, FiniteSets, TLC

VARIABLES
    args,            \* merge_inputs: the list of fetch records
    last_day_data,   \* merge_inputs: the previous-day lookup result
    pc,              \* position of the run
    i,               \* merge_inputs: enumerate() index of the loop at line 45
    merged,          \* merge_inputs: the accumulator dict
    success_count,   \* merge_inputs: line 37
    errors,          \* merge_inputs: line 39
    report,          \* what merge_inputs returned (PNone until it returns)
    stock_market,    \* the flow's market input
    slot,            \* the next step of the flow to run
    response,        \* the HTTP response the last fetch step got
    s3,              \* what get_object gives the lookup: a failure or the rows of the CSV
    row,             \* the rows the lookup's reader has delivered
    headers,         \* the header row the lookup found, NoHeaders before it
    last_day_gtdg,   \* the lookup's map of traded values
    last_day_klgd,   \* the lookup's map of traded volumes
    lookup_result,   \* what the lookup returned (empty until it returns)
    status_step,     \* the workflow-status step: its inputs and the report it returns
    uploader,        \* upload_to_s3_with_retry: its client, loop position, calls and waits
    config,          \* validated_config main and the lookup's dated key: inputs, result, key
    heap,            \* merge_inputs on objects: the store of entries, the records, the loop position
    generator,       \* generate_report: its position, its inputs, what it has done, its result
    chunk_upload,    \* the chunk upload: its inputs, the batch and attempt it is at, its counters, its end
    downloader,      \* download_document: its settings, the attempt it is at, its GETs and waits, its end
    secret_manager,  \* a SecretManager: its cache, the last get_secret call, the store reads so far
    extractor,       \* extract top/bottom indices: its inputs and its result
    legacy,          \* the legacy merge_inputs: the store of entries, args, the calls made and their reports
    roundtrip,       \* the report-to-lookup round trip: the report's entries, the rows written, the lookup's loop
    previous_day,    \* the previous-day lookup from its s3_config: the key, the requests, the result
    documents        \* download_multiple_documents: the ids, the document at hand, the map

mergeVars == <<args, last_day_data, pc, i, merged, success_count, errors, report>>

flowVars == <<stock_market, slot, response>>

lookupVars == <<s3, row, headers, last_day_gtdg, last_day_klgd, lookup_result>>

\* the variables of merge_inputs apart from pc
mergeData == <<args, last_day_data, i, merged, success_count, errors, report>>

\* the steps modelled on their own, each a record of its inputs, locals and result
stepVars == <<status_step, uploader, config, heap, generator, chunk_upload, downloader, secret_manager, extractor, legacy, roundtrip, previous_day, documents>>

\* a step that is not part of the run
Idle == [pc |-> "idle"]

\* every step but the named one is not part of the run
IdleSteps(step) ==
    /\ step = "status_step" \/ status_step = Idle
    /\ step = "uploader" \/ uploader = Idle
    /\ step = "config" \/ config = Idle
    /\ step = "heap" \/ heap = Idle
    /\ step = "generator" \/ generator = Idle
    /\ step = "chunk_upload" \/ chunk_upload = Idle
    /\ step = "downloader" \/ downloader = Idle
    /\ step = "secret_manager" \/ secret_manager = Idle
    /\ step = "extractor" \/ extractor = Idle
    /\ step = "legacy" \/ legacy = Idle
    /\ step = "roundtrip" \/ roundtrip = Idle
    /\ step = "previous_day" \/ previous_day = Idle
    /\ step = "documents" \/ documents = Idle

\* every step but the named one keeps its state
StepsUnchanged(step) ==
    /\ IF step = "status_step" THEN TRUE ELSE UNCHANGED status_step
    /\ IF step = "uploader" THEN TRUE ELSE UNCHANGED uploader
    /\ IF step = "config" THEN TRUE ELSE UNCHANGED config
    /\ IF step = "heap" THEN TRUE ELSE UNCHANGED heap
    /\ IF step = "generator" THEN TRUE ELSE UNCHANGED generator
    /\ IF step = "chunk_upload" THEN TRUE ELSE UNCHANGED chunk_upload
    /\ IF step = "downloader" THEN TRUE ELSE UNCHANGED downloader
    /\ IF step = "secret_manager" THEN TRUE ELSE UNCHANGED secret_manager
    /\ IF step = "extractor" THEN TRUE ELSE UNCHANGED extractor
    /\ IF step = "legacy" THEN TRUE ELSE UNCHANGED legacy
    /\ IF step = "roundtrip" THEN TRUE ELSE UNCHANGED roundtrip
    /\ IF step = "previous_day" THEN TRUE ELSE UNCHANGED previous_day
    /\ IF step = "documents" THEN TRUE ELSE UNCHANGED documents

\* the merge, the fetch steps and the lookup are not part of the run
IdleRun ==
    /\ args = <<>>
    /\ last_day_data = <<>>
    /\ pc = "idle"
    /\ i = 0
    /\ merged = <<>>
    /\ success_count = 0
    /\ errors = <<>>
    /\ report = [t |-> "none"]
    /\ stock_market = ""
    /\ slot = 0
    /\ response = [kind |-> "none", status |-> 0, body |-> [t |-> "none"]]
    /\ s3 = [kind |-> "none", rows |-> <<>>]
    /\ row = 0
    /\ headers = <<>>
    /\ last_day_gtdg = <<>>
    /\ last_day_klgd = <<>>
    /\ lookup_result = <<>>

\* a step on its own leaves the merge, the fetch steps and the lookup alone
RunUnchanged == UNCHANGED <<mergeVars, flowVars, lookupVars>>

-----------------------------------------------------------------------------
(* Bounds of the model *)

MaxArgs == 2
MaxItems == 2
MaxModules == 5
MaxRows == 3
MaxRetries == 5
MaxBucket == 4
FirstRunDay == 2185
MaxRunDays == 75
MaxObjects == 2
MaxChunks == 3
MaxBatch == 2
MaxUploadRetries == 3
MaxDownloadRetries == 4
MaxDelay == 2
MaxCalls == 4
MaxPercent == 2
MaxTopCount == 3
MaxBodyRows == 2        \* rows of the object the previous-day lookup reads from its key
MaxDocuments == 2       \* document ids handed to download_multiple_documents

-----------------------------------------------------------------------------
(* Python values *)

PNone == [t |-> "none"]
PStr(cs) == [t |-> "str", s |-> cs]
PList(xs) == [t |-> "list", items |-> xs]
PDict(f) == [t |-> "dict", d |-> f]

EmptyDict == [k \in {} |-> PNone]

\* d[k] = v on a dict
Put(f, k, v) == [x \in (DOMAIN f) \cup {k} |-> IF x = k THEN v ELSE f[x]]

RECURSIVE Pow10(_)
Pow10(n) == IF n <= 0 THEN 1 ELSE 10 * Pow10(n - 1)

\* the canonical form of m * 10^e: no trailing zero in m, and 0 is 0 * 10^0
RECURSIVE Norm(_, _)
Norm(m, e) ==
    IF m = 0 THEN [t |-> "num", m |-> 0, e |-> 0]
    ELSE IF m % 10 = 0 THEN Norm(m \div 10, e + 1)
    ELSE [t |-> "num", m |-> m, e |-> e]

PNum(m, e) == Norm(m, e)

Min2(a, b) == IF a < b THEN a ELSE b

\* the mantissa of x at exponent s, s <= x.e
At(x, s) == x.m * Pow10(x.e - s)

Sub(x, y) == LET s == Min2(x.e, y.e) IN Norm(At(x, s) - At(y, s), s)

IsZero(x) == x.m = 0

\* n / d rounded to the nearest integer, ties to even (d > 0)
RoundHalfEven(n, d) ==
    LET q == n \div d
        r == n - q * d
    IN  IF 2 * r < d THEN q
        ELSE IF 2 * r > d THEN q + 1
        ELSE IF q % 2 = 0 THEN q ELSE q + 1

\* round(x / y * 10^k, places) for decimals x, y with y # 0
RoundQuot(x, y, k, places) ==
    LET s == Min2(x.e, y.e)
        n == At(x, s) * Pow10(k + places)
        d == At(y, s)
    IN  IF d > 0 THEN Norm(RoundHalfEven(n, d), 0 - places)
        ELSE Norm(RoundHalfEven(0 - n, 0 - d), 0 - places)

\* round(x, places)
Round(x, places) ==
    IF x.e >= 0 - places THEN x
    ELSE Norm(RoundHalfEven(x.m, Pow10((0 - places) - x.e)), 0 - places)

\* x / 10^k
DivPow10(x, k) == Norm(x.m, x.e - k)

-----------------------------------------------------------------------------
(* float() *)

DigitChars == {"0", "1", "2", "3", "4", "5", "6", "7", "8", "9"}

DigitVal(c) ==
    CASE c = "0" -> 0 [] c = "1" -> 1 [] c = "2" -> 2 [] c = "3" -> 3
      [] c = "4" -> 4 [] c = "5" -> 5 [] c = "6" -> 6 [] c = "7" -> 7
      [] c = "8" -> 8 [] c = "9" -> 9

\* str.strip() of blanks
RECURSIVE LStrip(_)
LStrip(cs) == IF cs # <<>> /\ Head(cs) = " " THEN LStrip(Tail(cs)) ELSE cs

RECURSIVE RStrip(_)
RStrip(cs) ==
    IF cs # <<>> /\ cs[Len(cs)] = " " THEN RStrip(SubSeq(cs, 1, Len(cs) - 1)) ELSE cs

Strip(cs) == RStrip(LStrip(cs))

\* the digits of cs, in order
RECURSIVE Digits(_)
Digits(cs) ==
    IF cs = <<>> THEN <<>>
    ELSE IF Head(cs) \in DigitChars THEN <<Head(cs)>> \o Digits(Tail(cs))
    ELSE Digits(Tail(cs))

RECURSIVE IntOf(_, _)
IntOf(ds, acc) == IF ds = <<>> THEN acc ELSE IntOf(Tail(ds), 10 * acc + DigitVal(Head(ds)))

CountOf(cs, c) == Cardinality({k \in 1..Len(cs) : cs[k] = c})

\* position of the first c in cs, 0 when there is none
FirstPos(cs, c) ==
    IF CountOf(cs, c) = 0 THEN 0 ELSE CHOOSE k \in 1..Len(cs) : cs[k] = c /\ \A j \in 1..(k - 1) : cs[j] # c

\* float(str): an optional sign, then digits with at most one point and at least
\* one digit, blanks around it ignored.  ok = FALSE is ValueError.
ParseFloat(cs) ==
    LET st == Strip(cs)
        signed == st # <<>> /\ Head(st) \in {"-", "+"}
        body == IF signed THEN Tail(st) ELSE st
        wellFormed ==
            /\ \A k \in 1..Len(body) : body[k] \in DigitChars \cup {"."}
            /\ CountOf(body, ".") <= 1
            /\ Digits(body) # <<>>
        dot == FirstPos(body, ".")
        frac == IF dot = 0 THEN 0 ELSE Len(body) - dot
        mag == IntOf(Digits(body), 0)
    IN  IF wellFormed
        THEN [ok |-> TRUE,
              val |-> Norm(IF signed /\ Head(st) = "-" THEN 0 - mag ELSE mag, 0 - frac)]
        ELSE [ok |-> FALSE, val |-> Norm(0, 0)]

\* float(v): a number as it is, a str parsed, TypeError for anything else
Float(v) ==
    IF v.t = "num" THEN [ok |-> TRUE, val |-> v]
    ELSE IF v.t = "str" THEN ParseFloat(v.s)
    ELSE [ok |-> FALSE, val |-> Norm(0, 0)]

\* bool(v)
Truthy(v) ==
    CASE v.t = "none" -> FALSE
      [] v.t = "num" -> ~IsZero(v)
      [] v.t = "str" -> v.s # <<>>
      [] v.t = "list" -> v.items # <<>>
      [] v.t = "dict" -> DOMAIN v.d # {}

NA == PStr(<<"N", "/", "A">>)

-----------------------------------------------------------------------------
(* validate_data_quality.inline_script.py (27_7 flow) *)

\* the keys of data_mappings, in its order (source key = target key)
data_mappings ==
    <<"impact_up", "impact_down", "index_summary", "khoi_ngoai",
      "top_interested", "top_netforeign", "khoi_tu_doanh", "top_sectors">>

required_fields == <<"top_sectors", "top_netforeign", "top_interested", "khoi_tu_doanh">>

\* merged_data.get(k) is truthy
HasTruthy(f, k) == k \in DOMAIN f /\ Truthy(f[k])

RECURSIVE FieldWarnings(_, _)
FieldWarnings(f, fields) ==
    IF fields = <<>> THEN <<>>
    ELSE (IF ~HasTruthy(f, Head(fields))
          THEN << <<"Missing or empty ", Head(fields)>> >> ELSE <<>>)
         \o FieldWarnings(f, Tail(fields))

\* mutant: a missing khoi_ngoai is an issue too
validate_data_quality_Strict(merged_data) ==
    [passed |-> HasTruthy(merged_data, "index_summary") /\ HasTruthy(merged_data, "khoi_ngoai"),
     issues |-> (IF ~HasTruthy(merged_data, "index_summary")
                 THEN << <<"Missing index summary data">> >> ELSE <<>>)
                \o (IF ~HasTruthy(merged_data, "khoi_ngoai")
                    THEN << <<"Missing khoi ngoai data">> >> ELSE <<>>),
     warnings |-> FieldWarnings(merged_data, required_fields),
     timestamp |-> "utcnow"]

validate_data_quality(merged_data) ==
    [passed |-> HasTruthy(merged_data, "index_summary"),
     issues |-> IF ~HasTruthy(merged_data, "index_summary")
                THEN << <<"Missing index summary data">> >> ELSE <<>>,
     warnings |-> (IF ~HasTruthy(merged_data, "khoi_ngoai")
                   THEN << <<"Missing khoi ngoai data">> >> ELSE <<>>)
                  \o FieldWarnings(merged_data, required_fields),
     timestamp |-> "utcnow"]

\* the previous-day value of index_id in one of last_day_data's maps:
\* float(last_day.get(index_id, 0)), over last_day_data.get(name, {})
LastDayValue(ldd, name, item) ==
    IF /\ name \in DOMAIN ldd
       /\ "indexId" \in DOMAIN item
       /\ item["indexId"] \in DOMAIN ldd[name]
    THEN ldd[name][item["indexId"]]
    ELSE Norm(0, 0)

\* mutant: the quotient is not scaled to a percentage
ConvertField_Unscaled(item, key, unit, last, pctKey, amtKey) ==
    IF key \in DOMAIN item /\ item[key] # NA
    THEN LET f == Float(item[key]) IN
         IF ~f.ok THEN item
         ELSE LET current == DivPow10(f.val, unit)
                  converted == Put(item, key, current)
              IN  IF IsZero(last) THEN converted
                  ELSE Put(Put(converted, pctKey, RoundQuot(Sub(current, last), last, 0, 2)),
                           amtKey, Round(Sub(current, last), 3))
    ELSE item

\* mutant: a zero previous value is guarded and gives a change of 0
ConvertField_ZeroDelta(item, key, unit, last, pctKey, amtKey) ==
    IF key \in DOMAIN item /\ item[key] # NA
    THEN LET f == Float(item[key]) IN
         IF ~f.ok THEN item
         ELSE LET current == DivPow10(f.val, unit)
                  converted == Put(item, key, current)
              IN  IF IsZero(last) THEN Put(converted, pctKey, Norm(0, 0))
                  ELSE Put(Put(converted, pctKey, RoundQuot(Sub(current, last), last, 2, 2)),
                           amtKey, Round(Sub(current, last), 3))
    ELSE item

\* mutant: the converted value is stored only after the change was computed
ConvertField_StoreLate(item, key, unit, last, pctKey, amtKey) ==
    IF key \in DOMAIN item /\ item[key] # NA
    THEN LET f == Float(item[key]) IN
         IF ~f.ok THEN item
         ELSE LET current == DivPow10(f.val, unit)
                  converted == Put(item, key, current)
              IN  IF IsZero(last) THEN item
                  ELSE Put(Put(converted, pctKey, RoundQuot(Sub(current, last), last, 2, 2)),
                           amtKey, Round(Sub(current, last), 3))
    ELSE item

\* lines 85-105 and 106-127: unit conversion of one field and its change against
\* last; the bare except leaves what was assigned before the exception
ConvertField(item, key, unit, last, pctKey, amtKey) ==
    IF key \in DOMAIN item /\ item[key] # NA
    THEN LET f == Float(item[key]) IN
         IF ~f.ok THEN item
         ELSE LET current == DivPow10(f.val, unit)
                  converted == Put(item, key, current)
              IN  IF IsZero(last) THEN converted   \* ZeroDivisionError, swallowed
                  ELSE Put(Put(converted, pctKey, RoundQuot(Sub(current, last), last, 2, 2)),
                           amtKey, Round(Sub(current, last), 3))
    ELSE item

\* lines 73-128 for one item that is a dict
ProcessItem(item, ldd) ==
    LET gtdg == LastDayValue(ldd, "last_day_gtdg", item)
        klgd == LastDayValue(ldd, "last_day_klgd", item)
        withLast == Put(Put(item, "gtdg_last_day", gtdg), "klgd_last_day", klgd)
        withQty == ConvertField(withLast, "allQty", 6, klgd,
                                "klgd_change_percent", "klgd_change_amount")
    IN  ConvertField(withQty, "allValue", 9, gtdg,
                     "gtdg_change_percent", "gtdg_change_amount")

\* item.copy() / item_copy.get raise AttributeError on anything but a dict
ItemRaises(item) == item.t # "dict"

\* iterating a truthy index_summary: TypeError on a number, and the elements of a
\* str or the keys of a dict are str, on which .copy() raises
SummaryRaises(v) ==
    IF v.t = "list" THEN \E k \in 1..Len(v.items) : ItemRaises(v.items[k]) ELSE TRUE

ProcessSummary(v, ldd) ==
    PList([k \in 1..Len(v.items) |-> PDict(ProcessItem(v.items[k].d, ldd))])

\* mutant: a key already merged is kept (first write wins)
MergeKey_FirstWins(acc, data, key, ldd) ==
    IF key \notin DOMAIN data \/ key \in DOMAIN acc.merged THEN acc
    ELSE IF key = "index_summary" /\ Truthy(data[key])
         THEN IF SummaryRaises(data[key])
              THEN [raised |-> TRUE, merged |-> acc.merged]
              ELSE [raised |-> FALSE,
                    merged |-> Put(acc.merged, key, ProcessSummary(data[key], ldd))]
         ELSE [raised |-> FALSE, merged |-> Put(acc.merged, key, data[key])]

\* lines 68-131 for one source key of one record
MergeKey(acc, data, key, ldd) ==
    IF key \notin DOMAIN data THEN acc
    ELSE IF key = "index_summary" /\ Truthy(data[key])
         THEN IF SummaryRaises(data[key])
              THEN [raised |-> TRUE, merged |-> acc.merged]
              ELSE [raised |-> FALSE,
                    merged |-> Put(acc.merged, key, ProcessSummary(data[key], ldd))]
         ELSE [raised |-> FALSE, merged |-> Put(acc.merged, key, data[key])]

\* merged.update(data): every field of the record is copied
MergeKeys_Update(acc, data, keys, ldd) ==
    [raised |-> FALSE,
     merged |-> [k \in (DOMAIN acc.merged) \cup (DOMAIN data) |->
                    IF k \in DOMAIN data THEN data[k] ELSE acc.merged[k]]]

RECURSIVE MergeKeys(_, _, _, _)
MergeKeys(acc, data, keys, ldd) ==
    IF keys = <<>> \/ acc.raised THEN acc
    ELSE MergeKeys(MergeKey(acc, data, Head(keys), ldd), data, Tail(keys), ldd)

\* mutant: data.get("success", False)
Succeeded_AbsentFails(data) == "success" \in DOMAIN data /\ data["success"]

\* data.get("success", True)
Succeeded(data) == IF "success" \in DOMAIN data THEN data["success"] ELSE TRUE

\* the error is tagged with the count of the record, from 1
ErrorLine_FromOne(k, data) ==
    <<"Module ", k + 1, ": ", IF "error" \in DOMAIN data THEN data["error"] ELSE "Unknown error">>

\* f"Module {i}: {data.get('error', 'Unknown error')}"
ErrorLine(k, data) ==
    <<"Module ", k, ": ", IF "error" \in DOMAIN data THEN data["error"] ELSE "Unknown error">>

RECURSIVE Gcd(_, _)
Gcd(a, b) == IF b = 0 THEN a ELSE Gcd(b, a % b)

\* integer division in place of the true division
Quot_Floor(n, d) == [num |-> n \div d, den |-> 1]

\* the quotient n / d as a fraction in lowest terms
Quot(n, d) == [num |-> n \div Gcd(n, d), den |-> d \div Gcd(n, d)]

\* lines 134-140
execution_metadata(count, total, errs) ==
    [success_rate |-> IF total > 0 THEN Quot(count, total) ELSE Quot(0, 1),
     successful_modules |-> count,
     total_modules |-> total,
     errors |-> errs,
     timestamp |-> "utcnow"]

-----------------------------------------------------------------------------
(* The fetch adapters.  A response is what requests.get gives: kind            *)
(* "exception" when it raises (no connection, timeout), else kind "http" with  *)
(* the status and the decoded body, Undecodable when response.json() raises.   *)
(* str(e) is the opaque text "exception".                                      *)

Undecodable == [t |-> "undecodable"]

NoResponse == [kind |-> "none", status |-> 0, body |-> PNone]

Http(status, body) == [kind |-> "http", status |-> status, body |-> body]

\* requests.get raises, raise_for_status raises on 4xx / 5xx, response.json() raises
Raises(resp) == resp.kind = "exception" \/ resp.status >= 400 \/ resp.body = Undecodable

Get(f, k, default) == IF k \in DOMAIN f THEN f[k] ELSE default

\* not data or "data" not in data
NoData(body) == ~Truthy(body) \/ "data" \notin DOMAIN body.d

Failure(key, payload, msg) ==
    [k \in {key, "success", "error"} |->
        CASE k = key -> payload [] k = "success" -> FALSE [] k = "error" -> msg]

Success(key, payload, quality) ==
    [k \in {key, "success", "data_quality"} |->
        CASE k = key -> payload [] k = "success" -> TRUE [] k = "data_quality" -> quality]

key_fields ==
    <<"indexId", "indexValue", "change", "changePercent", "allQty", "allValue",
      "advances", "nochanges", "declines">>

\* item.get(key, "N/A"); an index id is a plain string, the other fields values
FieldOrNA(item, key) == Get(item, key, IF key = "indexId" THEN "N/A" ELSE NA)

\* bonny_flow fetch_index_summary main
fetch_index_summary_main(resp) ==
    IF Raises(resp) THEN Failure("index_summary", PList(<<>>), "exception")
    ELSE IF NoData(resp.body) THEN Failure("index_summary", PList(<<>>), "No data returned")
    ELSE LET rows == resp.body.d["data"].items
             result == [k \in 1..Len(rows) |->
                          PDict([f \in {key_fields[n] : n \in 1..Len(key_fields)} |->
                                    FieldOrNA(rows[k].d, f)])]
         IN  Success("index_summary", PList(result),
                     [records_processed |-> Len(result), source_records |-> Len(rows)])

Add(x, y) == LET s == Min2(x.e, y.e) IN Norm(At(x, s) + At(y, s), s)

Less(x, y) == LET s == Min2(x.e, y.e) IN At(x, s) < At(y, s)

RECURSIVE Sum(_)
Sum(xs) == IF xs = <<>> THEN Norm(0, 0) ELSE Add(Head(xs), Sum(Tail(xs)))

\* [x for x in xs if keep], for the two sides of index_affect
RECURSIVE Affecting(_, _)
Affecting(rows, up) ==
    IF rows = <<>> THEN <<>>
    ELSE LET impact == Get(Head(rows).d, "index_affect", Norm(0, 0))
         IN  (IF (impact.m >= 0) = up THEN <<Head(rows)>> ELSE <<>>)
             \o Affecting(Tail(rows), up)

Impact(rows) ==
    PDict([k \in {"stock_code", "total"} |->
             IF k = "stock_code"
             THEN PList([n \in 1..Len(rows) |-> Get(rows[n].d, "ticker", "Unknown")])
             ELSE Sum([n \in 1..Len(rows) |-> Get(rows[n].d, "index_affect", Norm(0, 0))])])

NoImpact == PDict([stock_code |-> PList(<<>>), total |-> Norm(0, 0)])

FluctuationFailure(msg) ==
    [k \in {"impact_up", "impact_down", "success", "error"} |->
        CASE k = "success" -> FALSE [] k = "error" -> msg [] OTHER -> NoImpact]

\* bonny_flow fetch_index_fluctuation main; "error" in None is a TypeError
fetch_index_fluctuation_main(market, resp) ==
    LET used == IF market = "" THEN "HSX" ELSE market IN
    IF Raises(resp) \/ resp.body.t # "dict" THEN FluctuationFailure("exception")
    ELSE IF "error" \in DOMAIN resp.body.d THEN FluctuationFailure(resp.body.d["error"])
    ELSE IF NoData(resp.body) THEN FluctuationFailure("No data returned")
    ELSE LET rows == resp.body.d["data"].items
             inc == Affecting(rows, TRUE)
             dec == Affecting(rows, FALSE)
         IN  [k \in {"impact_up", "impact_down", "success", "data_quality"} |->
                CASE k = "impact_up" -> Impact(inc)
                  [] k = "impact_down" -> Impact(dec)
                  [] k = "success" -> TRUE
                  [] k = "data_quality" ->
                        [increase_count |-> Len(inc), decrease_count |-> Len(dec),
                         market_used |-> used]]

\* xs[:n]
Take(xs, n) == SubSeq(xs, 1, Min2(n, Len(xs)))

\* bonny_flow fetch_interested_stocks main
fetch_interested_stocks_main(resp) ==
    IF Raises(resp) THEN Failure("top_interested", PList(<<>>), "exception")
    ELSE IF NoData(resp.body) THEN Failure("top_interested", PList(<<>>), "No data returned")
    ELSE LET rows == resp.body.d["data"].items
             top == Take([n \in 1..Len(rows) |-> Get(rows[n].d, "symbol", "Unknown")], 10)
         IN  Success("top_interested", PList(top),
                     [records_processed |-> Len(top), source_records |-> Len(rows)])

\* sorted(rows, key=lambda x: x.get(field, 0), reverse=descending): stable
RECURSIVE InsertBy(_, _, _, _)
InsertBy(x, sorted, field, descending) ==
    IF sorted = <<>> THEN <<x>>
    ELSE LET kx == Get(x.d, field, Norm(0, 0))
             kh == Get(Head(sorted).d, field, Norm(0, 0))
             before == IF descending THEN Less(kh, kx) ELSE Less(kx, kh)
         IN  IF before THEN <<x>> \o sorted
             ELSE <<Head(sorted)>> \o InsertBy(x, Tail(sorted), field, descending)

RECURSIVE SortedBy(_, _, _)
SortedBy(rows, field, descending) ==
    IF rows = <<>> THEN <<>>
    ELSE InsertBy(rows[Len(rows)], SortedBy(SubSeq(rows, 1, Len(rows) - 1), field, descending),
                  field, descending)

\* sort_and_format_sectors (the changePercent it rewrites is not returned)
sort_and_format_sectors(body, limit) ==
    IF NoData(body) THEN <<>>
    ELSE Take(SortedBy(body.d["data"].items, "changePercent", TRUE), limit)

\* 18_8 flow fetch_sectors_data main
fetch_sectors_data_main(resp) ==
    IF Raises(resp) THEN Failure("top_sectors", PList(<<>>), "exception")
    ELSE LET processed == sort_and_format_sectors(resp.body, 5)
             source == IF Truthy(resp.body)
                       THEN Len(Get(resp.body.d, "data", PList(<<>>)).items) ELSE 0
         IN  Success("top_sectors",
                     PList([n \in 1..Len(processed) |-> Get(processed[n].d, "icbName", "Unknown")]),
                     [records_processed |-> Len(processed), source_records |-> source])

Tickers(rows) == PList([n \in 1..Len(rows) |-> Get(rows[n].d, "ticker", "Unknown")])

NetForeign(buy, sell) == PDict([k \in {"buy", "sell"} |-> IF k = "buy" THEN buy ELSE sell])

\* process_netforeign_data: the value of its top_netforeign key
process_netforeign_data(body, limit) ==
    IF ~Truthy(body) \/ "top_buy" \notin DOMAIN body.d \/ "top_sell" \notin DOMAIN body.d
    THEN NetForeign(PList(<<>>), PList(<<>>))
    ELSE NetForeign(Tickers(Take(SortedBy(body.d["top_buy"].items, "value", TRUE), limit)),
                    Tickers(Take(SortedBy(body.d["top_sell"].items, "value", FALSE), limit)))

\* 27_7 flow fetch_netforeign_data main
fetch_netforeign_data_main(resp) ==
    IF Raises(resp)
    THEN Failure("top_netforeign", NetForeign(PList(<<>>), PList(<<>>)), "exception")
    ELSE LET processed == process_netforeign_data(resp.body, 10)
         IN  Success("top_netforeign", processed,
                     [buy_records |-> Len(processed.d["buy"].items),
                      sell_records |-> Len(processed.d["sell"].items)])

\* str.upper() on the market codes the flow is run with
Upper(market) ==
    CASE market = "hnx" -> "HNX"
      [] market = "hsx" -> "HSX"
      [] market = "Upcom" -> "UPCOM"
      [] OTHER -> market

KEY_FORWARD_COMPATIBLE(market) ==
    CASE market = "HSX" -> "VNINDEX"
      [] market = "HNX" -> "HNXINDEX"
      [] market = "UPCOM" -> "UPINDEX"
      [] OTHER -> market

\* stock_market.upper() if stock_market else "HSX", then the forward mapping
MarketKey(market) == KEY_FORWARD_COMPATIBLE(IF market = "" THEN "HSX" ELSE Upper(market))

\* f"Market {stock_market} not found"
MarketNotFound(key) ==
    CASE key = "VNINDEX" -> "Market VNINDEX not found"
      [] key = "HNXINDEX" -> "Market HNXINDEX not found"
      [] key = "UPINDEX" -> "Market UPINDEX not found"
      [] OTHER -> "Market XYZ not found"

NoFlow == PDict([vol |-> Norm(0, 0), net_value |-> Norm(0, 0)])

\* market_data.get(chart, {}).get("value", 0)
ChartValue(market_data, chart) ==
    IF chart \in DOMAIN market_data THEN Get(market_data[chart].d, "value", Norm(0, 0))
    ELSE Norm(0, 0)

\* 27_7 flow fetch_khoi_ngoai main
fetch_khoi_ngoai_main(market, resp) ==
    IF Raises(resp) THEN Failure("khoi_ngoai", NoFlow, "exception")
    ELSE IF NoData(resp.body) THEN Failure("khoi_ngoai", NoFlow, "No data returned")
    ELSE IF MarketKey(market) \notin DOMAIN resp.body.d["data"].d
    THEN Failure("khoi_ngoai", NoFlow, MarketNotFound(MarketKey(market)))
    ELSE LET market_data == Get(resp.body.d["data"].d[MarketKey(market)].d, "data",
                                PDict(EmptyDict)).d
             vol == DivPow10(ChartValue(market_data, "tradingVolumeChart_first"), 6)
             net_value == DivPow10(ChartValue(market_data, "tradingValueChart_first"), 9)
         IN  Success("khoi_ngoai",
                     PDict([k \in {"vol", "net_value"} |-> IF k = "vol" THEN vol ELSE net_value]),
                     [market_used |-> MarketKey(market), volume_millions |-> vol,
                      value_billions |-> net_value])

\* 27_7 flow fetch_khoi_tu_doanh main
fetch_khoi_tu_doanh_main(market, resp) ==
    IF Raises(resp) THEN Failure("khoi_tu_doanh", Norm(0, 0), "exception")
    ELSE IF NoData(resp.body) THEN Failure("khoi_tu_doanh", Norm(0, 0), "No data returned")
    ELSE IF MarketKey(market) \notin DOMAIN resp.body.d["data"].d
    THEN Failure("khoi_tu_doanh", Norm(0, 0), MarketNotFound(MarketKey(market)))
    ELSE LET market_data == resp.body.d["data"].d[MarketKey(market)].d IN
         IF ~HasTruthy(market_data, "data")
         THEN Failure("khoi_tu_doanh", Norm(0, 0), "No market data available")
         ELSE LET value == DivPow10(Get(market_data["data"].items[1].d,
                                        "tuDoanh_MuaRong_Total", Norm(0, 0)), 9)
              IN  Success("khoi_tu_doanh", value,
                          [market_used |-> MarketKey(market), value_billions |-> value])

-----------------------------------------------------------------------------
(* The inputs merge_inputs is run on *)

\* marks a field an entry lacks
Absent == [t |-> "absent"]

\* an index_summary entry; "" / Absent for a field the entry lacks
Entry(id, qty, val) ==
    PDict([k \in ((IF id = "" THEN {} ELSE {"indexId"})
                  \cup (IF qty = Absent THEN {} ELSE {"allQty"})
                  \cup (IF val = Absent THEN {} ELSE {"allValue"}))
           |-> CASE k = "indexId" -> id [] k = "allQty" -> qty [] k = "allValue" -> val])

EntryUniverse ==
    { Entry("VNINDEX", PNum(5, 6), PNum(9, 9)),        \* 5_000_000 and 9_000_000_000
      Entry("VN30", PNum(25, 5), PNum(1, 9)),
      Entry("VNINDEX", NA, PNone),
      Entry("", PNum(5, 6), Absent),
      Entry("VN30", PStr(<<"7", "5", "0", "0", "0", "0", "0">>), PStr(<<"a", "b", "c">>)),
      Entry("VN30", Absent, PNum(0, 0)),
      PStr(<<"V", "N">>) }                              \* an entry that is no dict

SummaryUniverse ==
    {PNone} \cup {PList(xs) : xs \in UNION {[1..n -> EntryUniverse] : n \in 0..MaxItems}}

\* what an adapter returns for its key when it fails
DefaultPayload(key) ==
    CASE key = "index_summary" -> PList(<<>>)
      [] key = "top_sectors" -> PList(<<>>)
      [] key = "top_interested" -> PList(<<>>)
      [] key = "top_netforeign" -> PDict([buy |-> PList(<<>>), sell |-> PList(<<>>)])
      [] key = "khoi_tu_doanh" -> PNum(0, 0)
      [] key = "khoi_ngoai" -> PDict([vol |-> PNum(0, 0), net_value |-> PNum(0, 0)])
      [] key = "impact_up" -> PDict([stock_code |-> PList(<<>>), total |-> PNum(0, 0)])
      [] key = "impact_down" -> PDict([stock_code |-> PList(<<>>), total |-> PNum(0, 0)])

\* a payload of a successful fetch
SamplePayload(key) ==
    CASE key = "index_summary" -> PList(<<Entry("VNINDEX", PNum(5, 6), PNum(9, 9))>>)
      [] key = "top_sectors" -> PList(<<"Bank">>)
      [] key = "top_interested" -> PList(<<"SSI">>)
      [] key = "top_netforeign" -> PDict([buy |-> PList(<<"HPG">>), sell |-> PList(<<"VIC">>)])
      [] key = "khoi_tu_doanh" -> PNum(14349, -2)
      [] key = "khoi_ngoai" -> PDict([vol |-> PNum(666, -2), net_value |-> PNum(-8331, -2)])
      [] key = "impact_up" -> PDict([stock_code |-> PList(<<"VCB">>), total |-> PNum(15, -1)])
      [] key = "impact_down" -> PDict([stock_code |-> PList(<<"VHM">>), total |-> PNum(-5, -1)])

DataKeys == {data_mappings[k] : k \in 1..Len(data_mappings)}

OtherKeys == DataKeys \ {"index_summary"}

\* the success / error fields a record may carry
Flags ==
    { [k \in {} |-> TRUE],
      [k \in {"success"} |-> TRUE],
      [k \in {"success"} |-> FALSE],
      [k \in {"success", "error"} |-> IF k = "success" THEN FALSE ELSE "boom"] }

\* the dict holding the fields of f and of g (disjoint keys)
Both(f, g) == [k \in (DOMAIN f) \cup (DOMAIN g) |-> IF k \in DOMAIN f THEN f[k] ELSE g[k]]

One(key, v) == [k \in {key} |-> v]

RecordUniverse ==
    {PNone, PDict(EmptyDict)}
    \cup {PDict(One("index_summary", v)) : v \in SummaryUniverse}
    \cup {PDict(One(key, DefaultPayload(key))) : key \in OtherKeys}
    \cup {PDict(One(key, SamplePayload(key))) : key \in OtherKeys}
    \cup {PDict([key \in DataKeys |-> SamplePayload(key)])}
    \cup {PDict(Both([key \in DataKeys |-> DefaultPayload(key)],
                     [k \in {"success", "error", "fallback_used"} |->
                        CASE k = "success" -> FALSE
                          [] k = "error" -> "API health check failed"
                          [] k = "fallback_used" -> TRUE]))}
    \cup {PDict(Both(fl, pl)) :
            fl \in Flags \ {EmptyDict},
            pl \in {EmptyDict,
                    One("index_summary", SamplePayload("index_summary")),
                    One("khoi_tu_doanh", DefaultPayload("khoi_tu_doanh")),
                    One("khoi_tu_doanh", SamplePayload("khoi_tu_doanh"))}}

ArgsUniverse == UNION {[1..n -> RecordUniverse] : n \in 0..MaxArgs}

\* previous-day lookup results: lacking its maps, the not-found result, and snapshots
LastDayUniverse ==
    { EmptyDict,
      [k \in {"last_day_gtdg", "last_day_klgd"} |-> EmptyDict],
      [k \in {"last_day_gtdg", "last_day_klgd"} |->
          IF k = "last_day_klgd" THEN One("VNINDEX", PNum(4, 0)) ELSE One("VNINDEX", PNum(8, 0))],
      [k \in {"last_day_gtdg", "last_day_klgd"} |->
          IF k = "last_day_klgd"
          THEN [x \in {"VNINDEX", "VN30"} |-> IF x = "VNINDEX" THEN PNum(0, 0) ELSE PNum(3, 0)]
          ELSE [x \in {"VNINDEX", "VN30"} |-> IF x = "VNINDEX" THEN PNum(7, 0) ELSE PNum(0, 0)]],
      [k \in {"last_day_klgd"} |-> One("VN30", PNum(45, -1))] }

-----------------------------------------------------------------------------
(* download_last_day's_csv.inline_script.py (18_8 flow; the 27_7 flow's main *)
(* differs only in the day it asks for).  A CSV cell is its characters; the   *)
(* three column names are written here without their diacritics.              *)

HeaderIndex == <<"C", "H", "I", " ", "S", "O">>
HeaderGtdg == <<"G", "T", "G", "D", " ", "(", "t", "y", ")">>
HeaderKlgd == <<"K", "L", "G", "D", " ", "(", "t", "r", "i", "e", "u", " ", "c", "p", ")">>

MAPPING_KEY ==
    [name \in { <<"V", "N", "3", "0">>, <<"H", "N", "X", "3", "0">>,
                <<"U", "P", "C", "O", "M">>, <<"V", "N", "X", "A", "L", "L">>,
                <<"V", "N", "I", "N", "D", "E", "X">>,
                <<"H", "N", "X", "I", "N", "D", "E", "X">> } |->
        CASE name = <<"V", "N", "3", "0">> -> "VN30"
          [] name = <<"H", "N", "X", "3", "0">> -> "HNX30"
          [] name = <<"U", "P", "C", "O", "M">> -> "HNXUpcomIndex"
          [] name = <<"V", "N", "X", "A", "L", "L">> -> "VNXALL"
          [] name = <<"V", "N", "I", "N", "D", "E", "X">> -> "VNINDEX"
          [] name = <<"H", "N", "X", "I", "N", "D", "E", "X">> -> "HNXIndex"]

\* sub in cs
Contains(cs, sub) ==
    \E k \in 1..(Len(cs) - Len(sub) + 1) : SubSeq(cs, k, k + Len(sub) - 1) = sub

\* cell in row
InRow(cell, r) == \E k \in 1..Len(r) : r[k] = cell

\* line 84
IsHeaderRow(r) == InRow(HeaderIndex, r) /\ InRow(HeaderGtdg, r) /\ InRow(HeaderKlgd, r)

\* headers.index(cell), counted from 1
IndexOf(r, cell) == CHOOSE k \in 1..Len(r) : r[k] = cell /\ \A j \in 1..(k - 1) : r[j] # cell

\* lines 90-96: the first column naming KLGD in millions, 0 for None
IsKlgdHeader(cell) ==
    /\ Contains(cell, <<"K", "L", "G", "D">>)
    /\ \/ Contains(cell, <<"t", "r", "i", "e", "u", " ", "c", "p">>)
       \/ Contains(cell, <<"t", "r", "i", "e", "u">>)

KlgdCol(r) ==
    IF \E k \in 1..Len(r) : IsKlgdHeader(r[k])
    THEN CHOOSE k \in 1..Len(r) : IsKlgdHeader(r[k]) /\ \A j \in 1..(k - 1) : ~IsKlgdHeader(r[j])
    ELSE 0

Max2(a, b) == IF a > b THEN a ELSE b

\* cell.split(":")[0]
BeforeColon(cs) == IF FirstPos(cs, ":") = 0 THEN cs ELSE SubSeq(cs, 1, FirstPos(cs, ":") - 1)

IsCleanChar(c) == c \in DigitChars \cup {".", "-"}

\* lines 128-132: the digits, points and minus signs of the cell before its colon
Clean(cell) == SelectSeq(Strip(BeforeColon(cell)), IsCleanChar)

NoHeaders == <<>>

\* the state of the loop at line 79: error is "" while the loop goes on, raised tells
\* whether the row ended in the handler at line 145
LoopState(hd, g, k, err, r) ==
    [headers |-> hd, last_day_gtdg |-> g, last_day_klgd |-> k, error |-> err, raised |-> r]

\* a row exception leaves the row handler and the try block: the outer handler's result
ReadDataRow_Propagate(hd, g, k, r) ==
    LET name == Strip(r[IndexOf(hd, HeaderIndex)])
        gclean == Clean(r[IndexOf(hd, HeaderGtdg)])
        kclean == Clean(r[KlgdCol(hd)])
        g2 == IF gclean # <<>> THEN Put(g, MAPPING_KEY[name], ParseFloat(gclean).val) ELSE g
        k2 == IF kclean # <<>> THEN Put(k, MAPPING_KEY[name], ParseFloat(kclean).val) ELSE k
    IN  IF Len(r) < Max2(IndexOf(hd, HeaderIndex), Max2(IndexOf(hd, HeaderGtdg), KlgdCol(hd)))
           \/ name \notin DOMAIN MAPPING_KEY
        THEN LoopState(hd, g, k, "", FALSE)
        ELSE IF (gclean # <<>> /\ ~ParseFloat(gclean).ok) \/ (kclean # <<>> /\ ~ParseFloat(kclean).ok)
        THEN LoopState(hd, g, k, "Unexpected error processing trading day's CSV", TRUE)
        ELSE LoopState(hd, g2, k2, "", FALSE)

\* lines 118-148 for a row below the headers
ReadDataRow(hd, g, k, r) ==
    LET name == Strip(r[IndexOf(hd, HeaderIndex)])
        gclean == Clean(r[IndexOf(hd, HeaderGtdg)])
        kclean == Clean(r[KlgdCol(hd)])
        g2 == IF gclean # <<>> THEN Put(g, MAPPING_KEY[name], ParseFloat(gclean).val) ELSE g
        k2 == IF kclean # <<>> THEN Put(k, MAPPING_KEY[name], ParseFloat(kclean).val) ELSE k
    IN  IF Len(r) < Max2(IndexOf(hd, HeaderIndex), Max2(IndexOf(hd, HeaderGtdg), KlgdCol(hd)))
           \/ name \notin DOMAIN MAPPING_KEY
        THEN LoopState(hd, g, k, "", FALSE)
        ELSE IF gclean # <<>> /\ ~ParseFloat(gclean).ok
        THEN LoopState(hd, g, k, "", TRUE)
        ELSE IF kclean # <<>> /\ ~ParseFloat(kclean).ok
        THEN LoopState(hd, g2, k, "", TRUE)
        ELSE LoopState(hd, g2, k2, "", FALSE)

\* lines 80-148 for one row of the reader
ReadRow(hd, g, k, r) ==
    IF r = <<>> THEN LoopState(hd, g, k, "", FALSE)
    ELSE IF IsHeaderRow(r)
    THEN IF KlgdCol(r) = 0
         THEN LoopState(r, g, k, "KLGD (trieu cp) column not found in trading day's CSV.", FALSE)
         ELSE LoopState(r, g, k, "", FALSE)
    ELSE IF hd # NoHeaders THEN ReadDataRow(hd, g, k, r)
    ELSE LoopState(hd, g, k, "", FALSE)

\* what main returns; the date is the opaque text "date"
Lookup(ok, g, k) ==
    [success |-> ok, last_day_gtdg |-> g, last_day_klgd |-> k, trading_date |-> "date"]

\* lines 150-155
Found(g, k) == Lookup(TRUE, g, k)

\* lines 159-165
NotFound ==
    Both(Lookup(TRUE, EmptyDict, EmptyDict), [message |-> "Trading day CSV not found"])

\* lines 99-105, 166-172 and 174-180
LookupFailed(msg) == Both(Lookup(FALSE, EmptyDict, EmptyDict), [error |-> msg])

\* no lookup is under way
IdleLookup ==
    /\ s3 = [kind |-> "none", rows |-> <<>>]
    /\ row = 0
    /\ headers = NoHeaders
    /\ last_day_gtdg = EmptyDict
    /\ last_day_klgd = EmptyDict
    /\ lookup_result = EmptyDict

-----------------------------------------------------------------------------
(* merge_inputs as a state machine: one step per iteration of the loop at line 45 *)

InitMerge ==
    /\ args \in ArgsUniverse
    /\ last_day_data \in LastDayUniverse
    /\ pc = "merge"
    /\ i = 0
    /\ merged = EmptyDict
    /\ success_count = 0
    /\ errors = <<>>
    /\ report = PNone
    /\ stock_market = ""
    /\ slot = 0
    /\ response = NoResponse
    /\ IdleLookup
    /\ IdleSteps("")

\* lines 45-131 for args[i]
merge_step ==
    /\ pc = "merge"
    /\ i < Len(args)
    /\ LET data == args[i + 1] IN
       IF ~Truthy(data)
       THEN /\ i' = i + 1
            /\ UNCHANGED <<pc, merged, success_count, errors>>
       ELSE LET acc == MergeKeys([raised |-> FALSE, merged |-> merged], data.d,
                                 data_mappings, last_day_data)
            IN  /\ success_count' = IF Succeeded(data.d) THEN success_count + 1 ELSE success_count
                /\ errors' = IF Succeeded(data.d) THEN errors
                             ELSE Append(errors, ErrorLine(i, data.d))
                /\ merged' = acc.merged
                /\ pc' = IF acc.raised THEN "raised" ELSE "merge"
                /\ i' = i + 1
    /\ UNCHANGED <<args, last_day_data, report, flowVars, lookupVars, stepVars>>

\* lines 133-146
merge_return ==
    /\ pc = "merge"
    /\ i = Len(args)
    /\ LET withMeta == Put(merged, "execution_metadata",
                           execution_metadata(success_count, Len(args), errors))
       IN  report' = PDict(Put(withMeta, "data_quality", validate_data_quality(withMeta)))
    /\ pc' = "done"
    /\ UNCHANGED <<args, last_day_data, i, merged, success_count, errors, flowVars, lookupVars, stepVars>>

vars == <<mergeVars, flowVars, lookupVars, stepVars>>

Init == InitMerge

Next == merge_step \/ merge_return

Spec == Init /\ [][Next]_vars

-----------------------------------------------------------------------------
(* The report flow: the fetch steps each append their record, then the       *)
(* records are merged.  Every fetch step may be left out of a run.           *)

ConnectionFailed == [kind |-> "exception", status |-> 0, body |-> PNone]

ErrorBody == PDict(One("error", "upstream error"))

Rows(rows) == PDict(One("data", PList(rows)))

\* responses that carry no usable data, whichever the endpoint
FailedResponses ==
    { ConnectionFailed, Http(500, PNone), Http(200, Undecodable),
      Http(200, ErrorBody), Http(200, PNone), Http(200, PDict(EmptyDict)) }

IndexResponses ==
    FailedResponses
    \cup { Http(200, Rows(<<Entry("VNINDEX", PNum(5, 6), PNum(9, 9))>>)),
           Http(200, Rows(<<>>)) }

FluctuationResponses ==
    FailedResponses
    \cup { Http(200, Rows(<<PDict([ticker |-> "VCB", index_affect |-> PNum(15, -1)]),
                            PDict([ticker |-> "VHM", index_affect |-> PNum(-5, -1)])>>)) }

InterestedResponses ==
    FailedResponses \cup { Http(200, Rows(<<PDict([symbol |-> "SSI"])>>)) }

SectorResponses ==
    FailedResponses
    \cup { Http(200, Rows(<<PDict([icbName |-> "Bank", changePercent |-> PNum(12, -1)]),
                            PDict([icbName |-> "Steel", changePercent |-> PNum(25, -1)])>>)) }

NetForeignResponses ==
    FailedResponses
    \cup { Http(200, PDict([top_buy |-> PList(<<PDict([ticker |-> "HPG", value |-> PNum(5, 0)])>>),
                            top_sell |-> PList(<<PDict([ticker |-> "VIC", value |-> PNum(-3, 0)])>>)])) }

KhoiNgoaiResponses ==
    FailedResponses
    \cup { Http(200, PDict(One("data", PDict(One("VNINDEX", PDict(One("data",
               PDict([tradingVolumeChart_first |-> PDict(One("value", PNum(666, 4))),
                      tradingValueChart_first |-> PDict(One("value", PNum(-8331, 7)))])))))))) }

KhoiTuDoanhResponses ==
    FailedResponses
    \cup { Http(200, PDict(One("data", PDict(One("VNINDEX",
               Rows(<<PDict(One("tuDoanh_MuaRong_Total", PNum(14349, 7)))>>)))))),
           Http(200, PDict(One("data", PDict(One("VNINDEX", Rows(<<>>)))))) }

Markets == {"", "hnx"}

\* the lookup's not-found result and a previous-day snapshot
FlowLastDay ==
    { [k \in {"last_day_gtdg", "last_day_klgd"} |-> EmptyDict],
      [k \in {"last_day_gtdg", "last_day_klgd"} |->
          IF k = "last_day_klgd" THEN One("VNINDEX", PNum(4, 0)) ELSE One("VNINDEX", PNum(8, 0))] }

\* bonny_flow inline_script_0 main: the record used when the API health check fails
inline_script_0_main ==
    Both([key \in DataKeys |-> DefaultPayload(key)],
         [k \in {"success", "error", "fallback_used"} |->
            CASE k = "success" -> FALSE
              [] k = "error" -> "API health check failed"
              [] k = "fallback_used" -> TRUE])

\* the steps of the flow that feed the merge, in the order their records are passed
Steps ==
    <<"fallback", "fetch_index_summary", "fetch_index_fluctuation", "fetch_interested_stocks",
      "fetch_sectors_data", "fetch_netforeign_data", "fetch_khoi_ngoai", "fetch_khoi_tu_doanh">>

InitFlow ==
    /\ args = <<>>
    /\ last_day_data \in FlowLastDay
    /\ stock_market \in Markets
    /\ pc = "fetch"
    /\ slot = 1
    /\ response = NoResponse
    /\ i = 0
    /\ merged = EmptyDict
    /\ success_count = 0
    /\ errors = <<>>
    /\ report = PNone
    /\ IdleLookup
    /\ IdleSteps("")

\* a step of the flow appends the record it returns
Ran(step, resp, record) ==
    /\ pc = "fetch"
    /\ slot <= Len(Steps)
    /\ Steps[slot] = step
    /\ Len(args) < MaxModules
    /\ args' = Append(args, PDict(record))
    /\ response' = resp
    /\ slot' = slot + 1
    /\ UNCHANGED <<last_day_data, stock_market, pc, i, merged, success_count, errors, report, lookupVars, stepVars>>

fallback == Ran("fallback", NoResponse, inline_script_0_main)

fetch_index_summary == \E r \in IndexResponses : Ran("fetch_index_summary", r, fetch_index_summary_main(r))

fetch_index_fluctuation ==
    \E r \in FluctuationResponses : Ran("fetch_index_fluctuation", r, fetch_index_fluctuation_main(stock_market, r))

fetch_interested_stocks ==
    \E r \in InterestedResponses : Ran("fetch_interested_stocks", r, fetch_interested_stocks_main(r))

fetch_sectors_data == \E r \in SectorResponses : Ran("fetch_sectors_data", r, fetch_sectors_data_main(r))

fetch_netforeign_data == \E r \in NetForeignResponses : Ran("fetch_netforeign_data", r, fetch_netforeign_data_main(r))

fetch_khoi_ngoai ==
    \E r \in KhoiNgoaiResponses : Ran("fetch_khoi_ngoai", r, fetch_khoi_ngoai_main(stock_market, r))

fetch_khoi_tu_doanh ==
    \E r \in KhoiTuDoanhResponses : Ran("fetch_khoi_tu_doanh", r, fetch_khoi_tu_doanh_main(stock_market, r))

\* the step at this slot is not part of the run
skip ==
    /\ pc = "fetch"
    /\ slot <= Len(Steps)
    /\ slot' = slot + 1
    /\ response' = NoResponse
    /\ UNCHANGED <<args, last_day_data, stock_market, pc, i, merged, success_count, errors, report, lookupVars, stepVars>>

\* the records go to merge_inputs
start_merge ==
    /\ pc = "fetch"
    /\ slot = Len(Steps) + 1
    /\ pc' = "merge"
    /\ response' = NoResponse
    /\ UNCHANGED <<args, last_day_data, stock_market, slot, i, merged, success_count, errors, report, lookupVars, stepVars>>

NextFlow ==
    \/ fallback
    \/ fetch_index_summary
    \/ fetch_index_fluctuation
    \/ fetch_interested_stocks
    \/ fetch_sectors_data
    \/ fetch_netforeign_data
    \/ fetch_khoi_ngoai
    \/ fetch_khoi_tu_doanh
    \/ skip
    \/ start_merge
    \/ merge_step
    \/ merge_return

SpecFlow == InitFlow /\ [][NextFlow]_vars

-----------------------------------------------------------------------------
(* The previous-day lookup as a state machine: get_object, then one step per  *)
(* row of the reader, then the return at line 150                             *)

Cells(name, gtdg, klgd) == <<name, gtdg, klgd>>

VNINDEX == <<"V", "N", "I", "N", "D", "E", "X">>

\* rows a report may hold: blank, headers, and rows above or below them
RowUniverse ==
    { <<>>,
      <<HeaderIndex, HeaderGtdg, HeaderKlgd>>,
      Cells(VNINDEX, <<"8">>, <<"4">>),
      Cells(VNINDEX, <<"1", ".", "2", ".", "3">>, <<"4">>),
      Cells(<<" ", "V", "N", "3", "0">>, <<"7">>, <<"-">>),
      Cells(<<"V", "N", "3", "0">>, <<"9", ":", "1">>, <<"a", "b", "c">>),
      <<VNINDEX, <<"8">>>>,
      Cells(<<"X", "Y", "Z">>, <<"1">>, <<"2">>),
      Cells(<<"U", "P", "C", "O", "M">>, <<" ", "1", ",", "5", " ">>, <<"2", ".", "5">>) }

\* what get_object and the decoding of its body give
ObjectUniverse ==
    { [kind |-> "NoSuchKey", rows |-> <<>>],
      [kind |-> "ClientError", rows |-> <<>>],
      [kind |-> "exception", rows |-> <<>>] }
    \cup { [kind |-> "ok", rows |-> rs] : rs \in UNION {[1..n -> RowUniverse] : n \in 0..MaxRows} }

InitLookup ==
    /\ s3 \in ObjectUniverse
    /\ pc = "get_object"
    /\ row = 0
    /\ headers = NoHeaders
    /\ last_day_gtdg = EmptyDict
    /\ last_day_klgd = EmptyDict
    /\ lookup_result = EmptyDict
    /\ args = <<>>
    /\ last_day_data = EmptyDict
    /\ i = 0
    /\ merged = EmptyDict
    /\ success_count = 0
    /\ errors = <<>>
    /\ report = PNone
    /\ stock_market = ""
    /\ slot = 0
    /\ response = NoResponse
    /\ IdleSteps("")

\* lines 70-73 and the handlers at lines 157-180
get_object ==
    /\ pc = "get_object"
    /\ CASE s3.kind = "ok" -> pc' = "read" /\ UNCHANGED lookup_result
         [] s3.kind = "NoSuchKey" -> pc' = "returned" /\ lookup_result' = NotFound
         [] s3.kind = "ClientError" -> pc' = "returned" /\ lookup_result' = LookupFailed("ClientError")
         [] OTHER ->
               /\ pc' = "returned"
               /\ lookup_result' = LookupFailed("Unexpected error processing trading day's CSV")
    /\ UNCHANGED <<s3, row, headers, last_day_gtdg, last_day_klgd, mergeData, flowVars, stepVars>>

\* lines 79-148 for the next row
read_row ==
    /\ pc = "read"
    /\ row < Len(s3.rows)
    /\ LET st == ReadRow(headers, last_day_gtdg, last_day_klgd, s3.rows[row + 1]) IN
       /\ headers' = st.headers
       /\ last_day_gtdg' = st.last_day_gtdg
       /\ last_day_klgd' = st.last_day_klgd
       /\ IF st.error = "" THEN UNCHANGED <<pc, lookup_result>>
          ELSE pc' = "returned" /\ lookup_result' = LookupFailed(st.error)
    /\ row' = row + 1
    /\ UNCHANGED <<s3, mergeData, flowVars, stepVars>>

\* lines 150-155
lookup_return ==
    /\ pc = "read"
    /\ row = Len(s3.rows)
    /\ lookup_result' = Found(last_day_gtdg, last_day_klgd)
    /\ pc' = "returned"
    /\ UNCHANGED <<s3, row, headers, last_day_gtdg, last_day_klgd, mergeData, flowVars, stepVars>>

NextLookup == get_object \/ read_row \/ lookup_return

SpecLookup == InitLookup /\ [][NextLookup]_vars

-----------------------------------------------------------------------------
(* bonny_flow inline_script_2 main: the final workflow status.  A rate is the *)
(* fraction merge_inputs stored; dicts are functions from their keys.         *)

\* rate * 100
Times100(rate) == Quot(rate.num * 100, rate.den)

\* fraction >= n and fraction < n
AtLeast(fraction, n) == fraction.num >= n * fraction.den

Below(fraction, n) == fraction.num < n * fraction.den

\* merge_result.get("execution_metadata", {}).get(key, 0)
MetaValue(merge_result, key, default) ==
    Get(Get(merge_result, "execution_metadata", EmptyDict), key, default)

\* lines 15-19
execution_summary(validation_result, health_check_result, merge_result, report_result) ==
    [input_validation |-> Get(validation_result, "validation_passed", FALSE),
     api_health |-> Get(health_check_result, "healthy", FALSE),
     data_merge_success |-> MetaValue(merge_result, "success_rate", Quot(0, 1)),
     data_quality_passed |-> Get(Get(merge_result, "data_quality", EmptyDict), "passed", FALSE),
     report_generated |-> IF Truthy(report_result)
                          THEN Get(report_result.d, "success", FALSE) ELSE FALSE]

\* lines 22-25
performance_metrics(health_check_result, merge_result) ==
    [api_health_percentage |-> Get(health_check_result, "health_percentage", 0),
     data_success_rate |-> Times100(MetaValue(merge_result, "success_rate", Quot(0, 1))),
     total_modules_executed |-> MetaValue(merge_result, "total_modules", 0),
     successful_modules |-> MetaValue(merge_result, "successful_modules", 0)]

\* lines 32-38
output_files(report_result) ==
    IF Truthy(report_result) /\ Get(report_result.d, "success", FALSE)
    THEN <<[type |-> "CSV", location |-> Get(report_result.d, "s3_location", "None")]>>
    ELSE <<>>

\* lines 41-48
recommendations(summary, metrics) ==
    (IF metrics.api_health_percentage < 80
     THEN <<"Consider checking API endpoint health">> ELSE <<>>)
    \o (IF Below(metrics.data_success_rate, 80)
        THEN <<"Review data source reliability">> ELSE <<>>)
    \o (IF ~summary.data_quality_passed
        THEN <<"Investigate data quality issues">> ELSE <<>>)

\* a partial success needs more than half of the modules
workflow_status_Above(summary, metrics) ==
    IF summary.report_generated THEN "SUCCESS"
    ELSE IF ~Below(metrics.data_success_rate, 50) /\ metrics.data_success_rate # Quot(50, 1)
    THEN "PARTIAL_SUCCESS"
    ELSE "FAILED"

\* lines 51-56
workflow_status(summary, metrics) ==
    IF summary.report_generated THEN "SUCCESS"
    ELSE IF AtLeast(metrics.data_success_rate, 50) THEN "PARTIAL_SUCCESS"
    ELSE "FAILED"

\* what the merge step handed over: nothing, or its metadata and quality report
MergeResults ==
    {EmptyDict}
    \cup { [k \in {"execution_metadata", "data_quality"} |->
              IF k = "execution_metadata"
              THEN execution_metadata(count, total, <<>>)
              ELSE [passed |-> passed]] :
           count \in 0..MaxModules, total \in 0..MaxModules, passed \in BOOLEAN }

\* report_result: None, an empty dict, a generated report, a failed one
ReportResults ==
    { PNone, PDict(EmptyDict),
      PDict([success |-> TRUE, s3_location |-> "s3://bucket/report.csv"]),
      PDict([success |-> FALSE, error |-> "exception"]) }

HealthResults ==
    { EmptyDict, [healthy |-> TRUE, health_percentage |-> 100],
      [healthy |-> FALSE, health_percentage |-> 50] }

InitStatus ==
    /\ IdleRun
    /\ IdleSteps("status_step")
    /\ \E v \in {[validation_passed |-> TRUE]}, h \in HealthResults,
          m \in MergeResults, r \in ReportResults :
          /\ m # EmptyDict => m["execution_metadata"].successful_modules
                                 <= m["execution_metadata"].total_modules
          /\ status_step = [pc |-> "start", validation_result |-> v,
                            health_check_result |-> h, merge_result |-> m,
                            report_result |-> r, final_report |-> EmptyDict]

\* lines 11-48: the report with its placeholder status
compile_final_report ==
    /\ status_step.pc = "start"
    /\ LET summary == execution_summary(status_step.validation_result,
                          status_step.health_check_result, status_step.merge_result,
                          status_step.report_result)
           metrics == performance_metrics(status_step.health_check_result,
                                          status_step.merge_result)
       IN  status_step' =
             [status_step EXCEPT
                !.pc = "compiled",
                !.final_report =
                    [workflow_status |-> "COMPLETED",
                     execution_summary |-> summary,
                     performance_metrics |-> metrics,
                     output_files |-> output_files(status_step.report_result),
                     recommendations |-> recommendations(summary, metrics)]]
    /\ RunUnchanged
    /\ StepsUnchanged("status_step")

\* lines 51-74
determine_workflow_status ==
    /\ status_step.pc = "compiled"
    /\ status_step' =
         [status_step EXCEPT
            !.pc = "returned",
            !.final_report.workflow_status =
                workflow_status(status_step.final_report.execution_summary,
                                status_step.final_report.performance_metrics)]
    /\ RunUnchanged
    /\ StepsUnchanged("status_step")

NextStatus == compile_final_report \/ determine_workflow_status

SpecStatus == InitStatus /\ [][NextStatus]_vars

-----------------------------------------------------------------------------
(* csv_report (18_8 flow): EnhancedStockReportGenerator.upload_to_s3_with_retry. *)
(* calls lists the outcome of every upload_file call, sleeps every time.sleep.  *)

RECURSIVE Pow2(_)
Pow2(n) == IF n = 0 THEN 1 ELSE 2 * Pow2(n - 1)

\* the same wait after every failed attempt
backoff_Fixed(attempt) == 1

\* line 342: time.sleep(2**attempt)
backoff(attempt) == Pow2(attempt)

\* what upload_file does: it returns, raises ClientError, or raises something else
UploadOutcomes == {"ok", "ClientError", "Exception"}

InitUpload ==
    /\ IdleRun
    /\ IdleSteps("uploader")
    /\ \E client \in BOOLEAN, retries \in 1..MaxRetries :
          uploader = [pc |-> "start", s3_client |-> client, max_retries |-> retries,
                      attempt |-> 0, calls |-> <<>>, sleeps |-> <<>>, returned |-> "none"]

\* lines 323-327: no client, no attempt
upload_begin ==
    /\ uploader.pc = "start"
    /\ uploader' = IF uploader.s3_client
                   THEN [uploader EXCEPT !.pc = "attempt"]
                   ELSE [uploader EXCEPT !.pc = "returned", !.returned = FALSE]
    /\ RunUnchanged
    /\ StepsUnchanged("uploader")

\* lines 328-347: one pass of the loop up to its return, its sleep or its next pass
upload_file ==
    /\ uploader.pc = "attempt"
    /\ uploader.attempt < uploader.max_retries
    /\ \E outcome \in UploadOutcomes :
          LET called == [uploader EXCEPT !.calls = Append(@, outcome)]
              last == uploader.attempt = uploader.max_retries - 1
          IN  uploader' =
                CASE outcome = "ok" -> [called EXCEPT !.pc = "returned", !.returned = TRUE]
                  [] outcome # "ok" /\ last ->
                        [called EXCEPT !.pc = "returned", !.returned = FALSE]
                  [] outcome = "ClientError" /\ ~last -> [called EXCEPT !.pc = "sleep"]
                  [] OTHER -> [called EXCEPT !.attempt = @ + 1]
    /\ RunUnchanged
    /\ StepsUnchanged("uploader")

\* line 342
upload_sleep ==
    /\ uploader.pc = "sleep"
    /\ uploader' = [uploader EXCEPT !.pc = "attempt", !.attempt = @ + 1,
                                    !.sleeps = Append(@, backoff(uploader.attempt))]
    /\ RunUnchanged
    /\ StepsUnchanged("uploader")

NextUpload == upload_begin \/ upload_file \/ upload_sleep

SpecUpload == InitUpload /\ [][NextUpload]_vars

-----------------------------------------------------------------------------
(* bonny_flow validated_config, and the dated key the previous-day lookup     *)
(* builds from its csv_key.  A day is its ordinal, day 0 being Monday         *)
(* 2018-01-01; keys and bucket names are their characters.                    *)

IsLeap(year) == year % 4 = 0 /\ (year % 100 # 0 \/ year % 400 = 0)

DaysInYear(year) == IF IsLeap(year) THEN 366 ELSE 365

DaysInMonth(year, month) ==
    CASE month = 2 -> IF IsLeap(year) THEN 29 ELSE 28
      [] month \in {4, 6, 9, 11} -> 30
      [] OTHER -> 31

\* the calendar date of the n-th day (from 0) of the year, month by month
RECURSIVE MonthDay(_, _, _)
MonthDay(year, month, n) ==
    IF n < DaysInMonth(year, month) THEN [year |-> year, month |-> month, day |-> n + 1]
    ELSE MonthDay(year, month + 1, n - DaysInMonth(year, month))

RECURSIVE YearDay(_, _)
YearDay(year, n) ==
    IF n < DaysInYear(year) THEN MonthDay(year, 1, n) ELSE YearDay(year + 1, n - DaysInYear(year))

\* the calendar date of a day
DateOf(day) == YearDay(2018, day)

\* datetime.weekday(): Monday is 0
weekday(day) == day % 7

DigitChar(n) == CHOOSE c \in DigitChars : DigitVal(c) = n

\* the last k decimal digits of n, zero padded
RECURSIVE Padded(_, _)
Padded(n, k) == IF k = 0 THEN <<>> ELSE Append(Padded(n \div 10, k - 1), DigitChar(n % 10))

\* strftime("%Y%m%d")
strftime(day) ==
    Padded(DateOf(day).year, 4) \o Padded(DateOf(day).month, 2) \o Padded(DateOf(day).day, 2)

\* the day before, whatever the day of the week
get_last_trading_day_Yesterday(today) == today - 1

\* download_last_day's_csv (18_8 flow) get_last_trading_day
get_last_trading_day(today) == IF weekday(today) = 0 THEN today - 3 ELSE today - 1

\* cs.split(sep): the pieces between the separators
RECURSIVE Split(_, _)
Split(cs, sep) ==
    IF FirstPos(cs, sep) = 0 THEN <<cs>>
    ELSE <<SubSeq(cs, 1, FirstPos(cs, sep) - 1)>>
         \o Split(SubSeq(cs, FirstPos(cs, sep) + 1, Len(cs)), sep)

\* sep.join(parts)
RECURSIVE Join(_, _)
Join(parts, sep) ==
    IF parts = <<>> THEN <<>>
    ELSE IF Len(parts) = 1 THEN parts[1]
    ELSE parts[1] \o <<sep>> \o Join(Tail(parts), sep)

DotCsv == <<".", "c", "s", "v">>

DotXlsx == <<".", "x", "l", "s", "x">>

\* the key keeps the base name only up to its first underscore
base_name_of_First(csv_key) == Split(csv_key, "_")[1]

\* download_last_day's_csv main lines 55 and 64: the key without its last "_" piece
base_name_of(csv_key) ==
    LET parts == Split(csv_key, "_") IN Join(SubSeq(parts, 1, Len(parts) - 1), "_")

\* line 65
target_key(csv_key, today) ==
    base_name_of(csv_key) \o <<"_">> \o strftime(get_last_trading_day(today)) \o DotCsv

\* validated_config generate_datetime_csv_key / generate_datetime_excel_key
generate_datetime_csv_key(base_name, now) == base_name \o <<"_">> \o strftime(now) \o DotCsv

generate_datetime_excel_key(base_name, now) == base_name \o <<"_">> \o strftime(now) \o DotXlsx

StockMarket == {"HSX", "HNX", "UPCOM"}

\* validate_stock_market
validate_stock_market(market) ==
    IF market = "" THEN "HSX"
    ELSE IF Upper(market) \in StockMarket THEN Upper(market)
    ELSE "HSX"

BucketChars ==
    DigitChars \cup {".", "-"}
    \cup {"a", "b", "c", "d", "e", "f", "g", "h", "i", "j", "k", "l", "m",
          "n", "o", "p", "q", "r", "s", "t", "u", "v", "w", "x", "y", "z"}

\* re.match(r"^[a-z0-9.-]{3,63}$", bucket): $ also matches before a final newline
BucketMatches(bucket) ==
    LET body == IF bucket # <<>> /\ bucket[Len(bucket)] = "\n"
                THEN SubSeq(bucket, 1, Len(bucket) - 1) ELSE bucket
    IN  /\ Len(body) >= 3
        /\ Len(body) <= 63
        /\ \A k \in 1..Len(body) : body[k] \in BucketChars

\* the region is not looked at
validate_s3_config_AnyRegion(bucket, region) ==
    LET errs == (IF bucket = <<>> \/ Len(bucket) < 3
                 THEN <<"S3 bucket name is required and must be at least 3 characters">>
                 ELSE <<>>)
                \o (IF bucket # <<>> /\ ~BucketMatches(bucket)
                    THEN <<"Invalid S3 bucket name format">> ELSE <<>>)
    IN  [valid |-> errs = <<>>, errors |-> errs,
         validated_config |-> [bucket |-> bucket, region |-> region]]

\* validate_s3_config
validate_s3_config(bucket, region) ==
    LET errs == (IF bucket = <<>> \/ Len(bucket) < 3
                 THEN <<"S3 bucket name is required and must be at least 3 characters">>
                 ELSE <<>>)
                \o (IF region = "" THEN <<"S3 region is required">> ELSE <<>>)
                \o (IF bucket # <<>> /\ ~BucketMatches(bucket)
                    THEN <<"Invalid S3 bucket name format">> ELSE <<>>)
    IN  [valid |-> errs = <<>>, errors |-> errs,
         validated_config |-> [bucket |-> bucket, region |-> region]]

BucketAlphabet == {"a", "1", ".", "-", "A", "\n"}

\* bucket names up to MaxBucket characters, and names of 63 and 64 characters
Buckets ==
    UNION {[1..n -> BucketAlphabet] : n \in 0..MaxBucket}
    \cup {[k \in 1..63 |-> "a"], [k \in 1..64 |-> "a"]}

Regions == {"", "ap-southeast-2"}

MarketInputs == {"", "hsx", "HNX", "Upcom", "NYSE"}

DefaultBaseName ==
    <<"s", "t", "o", "c", "k", "_", "s", "u", "m", "m", "a", "r", "y", "_",
      "r", "e", "p", "o", "r", "t">>

BaseNames ==
    { DefaultBaseName, <<>>, <<"r">>, <<"a", "_", "b">>, <<"_">>, <<"r", "_">>,
      <<"a", "_", "_">>, <<"d", "i", "r", "/", "r", "_", "x">> }

\* the days a run may take place on
RunDays == FirstRunDay..(FirstRunDay + MaxRunDays)

ConfigInputs(market, bucket, region, base_name, now) ==
    [pc |-> "start", stock_market |-> market, s3_bucket_name |-> bucket,
     s3_region |-> region, base_name |-> base_name, now |-> now, result |-> EmptyDict,
     last_trading_day |-> 0, base_name_found |-> <<>>, target_key |-> <<>>]

InitConfig ==
    /\ IdleRun
    /\ IdleSteps("config")
    /\ \/ \E market \in MarketInputs, bucket \in Buckets, region \in Regions :
             config = ConfigInputs(market, bucket, region, DefaultBaseName, FirstRunDay)
       \/ \E base_name \in BaseNames, now \in RunDays :
             config = ConfigInputs("", <<"a", "-", "1">>, "ap-southeast-2", base_name, now)

\* validated_config main: it returns its result or raises ValueError
validated_config_main ==
    /\ config.pc = "start"
    /\ LET validated_market == validate_stock_market(config.stock_market)
           csv_key == generate_datetime_csv_key(config.base_name, config.now)
           excel_key == generate_datetime_excel_key(config.base_name, config.now)
           s3_validation == validate_s3_config(config.s3_bucket_name, config.s3_region)
       IN  config' =
             IF ~s3_validation.valid THEN [config EXCEPT !.pc = "raised"]
             ELSE [config EXCEPT
                     !.pc = "returned",
                     !.result =
                        [stock_market |-> validated_market,
                         s3_config |-> [bucket |-> s3_validation.validated_config.bucket,
                                        region |-> s3_validation.validated_config.region,
                                        csv_key |-> csv_key, excel_key |-> excel_key],
                         validation_passed |-> TRUE,
                         generated_keys |-> [csv |-> csv_key, excel |-> excel_key,
                                             timestamp |-> "now"]]]
    /\ RunUnchanged
    /\ StepsUnchanged("config")

\* download_last_day's_csv main lines 52-65, run the same day on the returned s3_config
lookup_target_key ==
    /\ config.pc = "returned"
    /\ config' = [config EXCEPT
                    !.pc = "keyed",
                    !.last_trading_day = get_last_trading_day(config.now),
                    !.base_name_found = base_name_of(config.result.s3_config.csv_key),
                    !.target_key = target_key(config.result.s3_config.csv_key, config.now)]
    /\ RunUnchanged
    /\ StepsUnchanged("config")

NextConfig == validated_config_main \/ lookup_target_key

SpecConfig == InitConfig /\ [][NextConfig]_vars

-----------------------------------------------------------------------------
(* merge_inputs on objects: the index_summary entries are dicts of a store,    *)
(* an index_summary is the list of their addresses, and a write goes to the   *)
(* object the written name refers to.                                          *)

\* the entry is enriched in place
item_copy_Alias(store, addr) == [store |-> store, addr |-> addr]

\* line 73, item.copy(): a new dict with the same fields
item_copy(store, addr) == [store |-> Append(store, store[addr]), addr |-> Len(store) + 1]

\* lines 73-128: the writes go to the object item_copy names
ProcessObject(store, addr, ldd) ==
    LET copied == item_copy(store, addr)
    IN  [store |-> [copied.store EXCEPT ![copied.addr] = ProcessItem(@, ldd)],
         addr |-> copied.addr]

\* lines 71-128: processed_summary for the entries at addrs
RECURSIVE ProcessObjects(_, _, _)
ProcessObjects(store, addrs, ldd) ==
    IF addrs = <<>> THEN [store |-> store, processed_summary |-> <<>>]
    ELSE LET first == ProcessObject(store, Head(addrs), ldd)
             rest == ProcessObjects(first.store, Tail(addrs), ldd)
         IN  [store |-> rest.store,
              processed_summary |-> <<first.addr>> \o rest.processed_summary]

\* the entries the objects are drawn from
EntryObjects ==
    { Entry("VNINDEX", PNum(5, 6), PNum(9, 9)).d,
      Entry("VN30", NA, PNum(1, 9)).d,
      Entry("VNINDEX", PStr(<<"7", "5", "0", "0", "0", "0", "0">>), Absent).d,
      Entry("", PNum(25, 5), PNone).d }

Stores == UNION {[1..n -> EntryObjects] : n \in 1..MaxObjects}

\* the index_summary lists over the objects of a store
SummariesOf(store) == UNION {[1..n -> 1..Len(store)] : n \in 0..MaxItems}

InitHeap ==
    /\ IdleRun
    /\ IdleSteps("heap")
    /\ \E store \in Stores, ldd \in FlowLastDay :
       \E summaries \in UNION {[1..n -> SummariesOf(store)] : n \in 0..MaxArgs} :
          heap = [pc |-> "merge", store |-> store, args |-> summaries,
                  last_day_data |-> ldd, before |-> store, i |-> 0,
                  index_summary |-> <<>>]

\* lines 45-131 for the index_summary of args[i]
merge_objects ==
    /\ heap.pc = "merge"
    /\ heap.i < Len(heap.args)
    /\ LET addrs == heap.args[heap.i + 1]
           done == ProcessObjects(heap.store, addrs, heap.last_day_data)
       IN  heap' = IF addrs = <<>>
                   THEN [heap EXCEPT !.i = @ + 1, !.index_summary = addrs]
                   ELSE [heap EXCEPT !.i = @ + 1, !.store = done.store,
                                     !.index_summary = done.processed_summary]
    /\ RunUnchanged
    /\ StepsUnchanged("heap")

\* line 146
merge_objects_return ==
    /\ heap.pc = "merge"
    /\ heap.i = Len(heap.args)
    /\ heap' = [heap EXCEPT !.pc = "returned"]
    /\ RunUnchanged
    /\ StepsUnchanged("heap")

NextHeap == merge_objects \/ merge_objects_return

SpecHeap == InitHeap /\ [][NextHeap]_vars

-----------------------------------------------------------------------------
(* EnhancedStockReportGenerator.generate_report *)

required_keys ==
    <<"index_summary", "khoi_ngoai", "top_netforeign", "khoi_tu_doanh",
      "top_sectors", "top_interested", "impact_up", "impact_down">>

RequiredKeys == {required_keys[k] : k \in 1..Len(required_keys)}

\* a key of data is absent, holds an empty value, a value of the expected shape, or a
\* non-empty value of another shape (a list for a dict, numbers for strings)
ValueKinds == {"absent", "empty", "ok", "bad"}

\* lines 56-99: the dict validate_input_data returns, or the exception leaving it
validate_input_data(data) ==
    IF data = PNone THEN [raised |-> "TypeError"]
    ELSE IF data["top_netforeign"] = "bad" THEN [raised |-> "AttributeError"]
    ELSE [raised |-> "no",
          valid |-> \A key \in RequiredKeys : data[key] # "absent",
          errors |-> {key \in RequiredKeys : data[key] = "absent"},
          warnings |-> {key \in RequiredKeys : data[key] = "empty"}]

\* lines 101-318: the formatting of khoi_tu_doanh is inside a bare try/except, the
\* formatting of every other section is not
generate_csv_content_with_metadata(data) ==
    IF \E key \in RequiredKeys \ {"khoi_tu_doanh"} : data[key] = "bad"
    THEN [raised |-> "TypeError"]
    ELSE [raised |-> "no"]

\* lines 381-410: the dict generate_report returns
generate_report_result(g, upload_success, raised) ==
    IF raised = "no"
    THEN [success |-> upload_success,
          message |-> IF upload_success
                      THEN "Enhanced CSV report with percentage columns generated successfully"
                      ELSE "CSV report generation failed",
          s3_location |-> IF upload_success THEN "s3://bucket/key" ELSE "None",
          error |-> "absent",
          data_validation |-> g.validation_result]
    ELSE [success |-> FALSE,
          message |-> "CSV report generation failed: " \o raised,
          s3_location |-> "absent",
          error |-> raised,
          data_validation |-> [raised |-> "absent"]]

\* an upload is tried whether or not there is a client
upload_to_s3_with_retry_NoCheck(s3_client, outcomes, attempt, max_retries) ==
    IF \E k \in 1..max_retries : outcomes[k] = "ok"
    THEN [returned |-> TRUE, calls |-> CHOOSE k \in 1..max_retries : outcomes[k] = "ok"]
    ELSE [returned |-> FALSE, calls |-> max_retries]

\* lines 319-349 as a function of what upload_file does at each call
RECURSIVE upload_to_s3_with_retry(_, _, _, _)
upload_to_s3_with_retry(s3_client, outcomes, attempt, max_retries) ==
    IF ~s3_client \/ attempt >= max_retries THEN [returned |-> FALSE, calls |-> attempt]
    ELSE IF outcomes[attempt + 1] = "ok" THEN [returned |-> TRUE, calls |-> attempt + 1]
    ELSE IF attempt = max_retries - 1 THEN [returned |-> FALSE, calls |-> attempt + 1]
    ELSE upload_to_s3_with_retry(s3_client, outcomes, attempt + 1, max_retries)

\* max_retries: int = 3
DefaultRetries == Len(<<"first", "second", "third">>)

\* data with every key as expected, and with one key changed
ReportData ==
    {PNone} \cup
    {[key \in RequiredKeys |-> IF key = changed THEN kind ELSE "ok"] :
        changed \in RequiredKeys, kind \in ValueKinds}

\* what a call of the operating system does
FileOutcomes == {"no", "OSError"}

InitReport ==
    /\ IdleRun
    /\ IdleSteps("generator")
    /\ \E data \in ReportData, client \in BOOLEAN :
          generator = [pc |-> "validate", data |-> data, s3_client |-> client,
                       validation_result |-> [raised |-> "unset"],
                       temp_file |-> "none", upload_success |-> FALSE,
                       upload_calls |-> 0, raised |-> "no", result |-> PNone]

\* lines 404-410: the except clause
report_except(g, raised) ==
    [g EXCEPT !.pc = "returned", !.raised = raised,
              !.result = generate_report_result(g, g.upload_success, raised)]

\* lines 355-359
report_validate ==
    /\ generator.pc = "validate"
    /\ LET validation_result == validate_input_data(generator.data)
       IN  generator' =
              IF validation_result.raised # "no"
              THEN report_except(generator, validation_result.raised)
              ELSE [generator EXCEPT !.pc = "csv", !.validation_result = validation_result]
    /\ RunUnchanged
    /\ StepsUnchanged("generator")

\* lines 362-363
report_csv ==
    /\ generator.pc = "csv"
    /\ LET csv_rows == generate_csv_content_with_metadata(generator.data)
       IN  generator' =
              IF csv_rows.raised # "no"
              THEN report_except(generator, csv_rows.raised)
              ELSE [generator EXCEPT !.pc = "write"]
    /\ RunUnchanged
    /\ StepsUnchanged("generator")

\* lines 365-370: the temporary file is created and written
report_write ==
    /\ generator.pc = "write"
    /\ \E raised \in FileOutcomes :
          generator' =
             IF raised # "no"
             THEN report_except([generator EXCEPT !.temp_file = "left"], raised)
             ELSE [generator EXCEPT !.pc = "upload", !.temp_file = "written"]
    /\ RunUnchanged
    /\ StepsUnchanged("generator")

\* lines 373-374
report_upload ==
    /\ generator.pc = "upload"
    /\ \E outcomes \in [1..DefaultRetries -> UploadOutcomes] :
          LET upload == upload_to_s3_with_retry(generator.s3_client, outcomes, 0,
                                                DefaultRetries)
          IN  generator' = [generator EXCEPT !.pc = "getsize",
                                             !.upload_success = upload.returned,
                                             !.upload_calls = upload.calls]
    /\ RunUnchanged
    /\ StepsUnchanged("generator")

\* line 377
report_getsize ==
    /\ generator.pc = "getsize"
    /\ \E raised \in FileOutcomes :
          generator' =
             IF raised # "no"
             THEN report_except([generator EXCEPT !.temp_file = "left"], raised)
             ELSE [generator EXCEPT !.pc = "unlink"]
    /\ RunUnchanged
    /\ StepsUnchanged("generator")

\* lines 380-402
report_unlink ==
    /\ generator.pc = "unlink"
    /\ \E raised \in FileOutcomes :
          generator' =
             IF raised # "no"
             THEN report_except([generator EXCEPT !.temp_file = "left"], raised)
             ELSE [generator EXCEPT !.pc = "returned", !.temp_file = "removed",
                      !.result = generate_report_result(generator,
                                                        generator.upload_success, "no")]
    /\ RunUnchanged
    /\ StepsUnchanged("generator")

NextReport ==
    \/ report_validate
    \/ report_csv
    \/ report_write
    \/ report_upload
    \/ report_getsize
    \/ report_unlink

SpecReport == InitReport /\ [][NextReport]_vars

-----------------------------------------------------------------------------
(* The chunk upload of the RAG chunking flow: main, upload_document_chunks,      *)
(* upload_chunks_batch and _upload_single_batch                                  *)

\* a failed batch is tolerated
UploadResult_success_Lenient(failed_batches) == failed_batches <= 1

\* line 97: success=failed_batches == 0
UploadResult_success(failed_batches) == failed_batches = 0

\* lines 116-125 and 131: the POST returns a JSON object, raises a
\* requests.RequestException (no connection, a timeout, an HTTP error status), or
\* answers JSON that is not an object, so that result.get raises AttributeError
PostOutcomes == {"ok", "RequestException", "AttributeError"}

\* line 82: range(0, total_chunks, batch_size) has an offset left at i
InRange(offset, total_chunks, batch_size) == batch_size > 0 /\ offset < total_chunks

\* line 84: len(chunks_data[i : i + batch_size])
BatchLen(offset, total_chunks, batch_size) ==
    IF offset + batch_size <= total_chunks THEN batch_size ELSE total_chunks - offset

\* lines 88-101 once a batch has ended: the counters, then the next batch or the result
BatchEnded(c, uploaded_count, failure) ==
    LET counted == IF failure = "no"
                   THEN [c EXCEPT !.total_uploaded = @ + uploaded_count,
                                  !.successful_batches = @ + 1]
                   ELSE [c EXCEPT !.failed_batches = @ + 1,
                                  !.errors = Append(@, failure)]
        offset == c.i + c.batch_size
    IN  [counted EXCEPT !.i = offset, !.attempt = 0,
                        !.pc = IF InRange(offset, c.total_chunks, c.batch_size)
                               THEN "batch" ELSE "result"]

SessionIds == {"", "session-1"}

InitChunks ==
    /\ IdleRun
    /\ IdleSteps("chunk_upload")
    /\ \E session_id \in SessionIds, total_chunks \in 0..MaxChunks,
          batch_size \in -1..MaxBatch, max_retries \in 0..MaxUploadRetries :
          chunk_upload = [pc |-> "main", session_id |-> session_id,
                          total_chunks |-> total_chunks, batch_size |-> batch_size,
                          max_retries |-> max_retries, i |-> 0, attempt |-> 0,
                          posts |-> 0, sleeps |-> <<>>, total_uploaded |-> 0,
                          successful_batches |-> 0, failed_batches |-> 0,
                          errors |-> <<>>, returned |-> "unset", raised |-> "no"]

\* main lines 218-234 and upload_document_chunks lines 152-182, up to the first batch
upload_document_chunks ==
    /\ chunk_upload.pc = "main"
    /\ chunk_upload' =
          IF chunk_upload.session_id = ""
          THEN [chunk_upload EXCEPT !.pc = "raised", !.raised = "UploadError"]
          ELSE IF chunk_upload.total_chunks = 0
          THEN [chunk_upload EXCEPT !.pc = "returned", !.returned = chunk_upload.session_id]
          ELSE IF chunk_upload.batch_size = 0
          THEN [chunk_upload EXCEPT !.pc = "raised", !.raised = "ValueError"]
          ELSE IF InRange(0, chunk_upload.total_chunks, chunk_upload.batch_size)
          THEN [chunk_upload EXCEPT !.pc = "batch"]
          ELSE [chunk_upload EXCEPT !.pc = "result"]
    /\ RunUnchanged
    /\ StepsUnchanged("chunk_upload")

\* lines 113-141: one pass of the retry loop of _upload_single_batch, with the wait
\* that follows it, and lines 88-101 when the pass ends the batch
upload_single_batch ==
    /\ chunk_upload.pc = "batch"
    /\ chunk_upload.attempt < chunk_upload.max_retries
    /\ \E outcome \in PostOutcomes :
          LET posted == [chunk_upload EXCEPT !.posts = @ + 1]
              batch == BatchLen(posted.i, posted.total_chunks, posted.batch_size)
          IN  chunk_upload' =
                 CASE outcome = "ok" -> BatchEnded(posted, batch, "no")
                   [] outcome = "AttributeError" -> BatchEnded(posted, 0, outcome)
                   [] outcome = "RequestException" ->
                        IF posted.attempt = posted.max_retries - 1
                        THEN BatchEnded(posted, 0, "UploadError")
                        ELSE [posted EXCEPT !.attempt = @ + 1,
                                            !.sleeps = Append(@, posted.attempt + 1)]
    /\ RunUnchanged
    /\ StepsUnchanged("chunk_upload")

\* lines 113 and 88-91 with max_upload_retries 0: the loop body never runs, the
\* function returns None and total_uploaded += None raises TypeError
upload_no_attempt ==
    /\ chunk_upload.pc = "batch"
    /\ chunk_upload.max_retries = 0
    /\ chunk_upload' = BatchEnded(chunk_upload, 0, "TypeError")
    /\ RunUnchanged
    /\ StepsUnchanged("chunk_upload")

\* lines 96-105, 184-205 and 236-241
chunks_return ==
    /\ chunk_upload.pc = "result"
    /\ chunk_upload' =
          [chunk_upload EXCEPT
              !.pc = "returned",
              !.returned = IF UploadResult_success(chunk_upload.failed_batches)
                           THEN chunk_upload.session_id ELSE "None"]
    /\ RunUnchanged
    /\ StepsUnchanged("chunk_upload")

NextChunks ==
    \/ upload_document_chunks
    \/ upload_single_batch
    \/ upload_no_attempt
    \/ chunks_return

SpecChunks == InitChunks /\ [][NextChunks]_vars

-----------------------------------------------------------------------------
(* DocumentDownloader.download_document *)

\* the same wait after every failed attempt
retry_wait_Constant(retry_delay, attempt) == retry_delay

\* line 83: time.sleep(self.retry_delay * (attempt + 1))
retry_wait(retry_delay, attempt) == retry_delay * (attempt + 1)

\* lines 64-68: the two ways session.get and raise_for_status raise, both
\* requests.RequestException
RequestFailures == {"ConnectionError", "HTTPError"}

\* lines 64-68: what a GET gives: a body, an empty body, or a RequestException
GetOutcomes == {"content", "empty"} \cup RequestFailures

InitDownload ==
    /\ IdleRun
    /\ IdleSteps("downloader")
    /\ \E max_retries \in 0..MaxDownloadRetries, retry_delay \in 1..MaxDelay :
          downloader = [pc |-> "attempt", max_retries |-> max_retries,
                        retry_delay |-> retry_delay, attempt |-> 0, gets |-> <<>>,
                        sleeps |-> <<>>, returned |-> "unset", raised |-> "no"]

\* lines 62-83: one pass of the loop, up to its return, its raise, or the end of its wait
download_attempt ==
    /\ downloader.pc = "attempt"
    /\ downloader.attempt < downloader.max_retries
    /\ \E outcome \in GetOutcomes :
          LET got == [downloader EXCEPT !.gets = Append(@, outcome)]
          IN  downloader' =
                 CASE outcome = "content" ->
                        [got EXCEPT !.pc = "returned", !.returned = "content"]
                   [] outcome = "empty" ->
                        [got EXCEPT !.pc = "raised", !.raised = "Empty content"]
                   [] outcome \in RequestFailures ->
                        IF got.attempt = got.max_retries - 1
                        THEN [got EXCEPT !.pc = "raised", !.raised = "Failed to download"]
                        ELSE [got EXCEPT
                                 !.attempt = @ + 1,
                                 !.sleeps = Append(@, retry_wait(got.retry_delay,
                                                                 got.attempt))]
    /\ RunUnchanged
    /\ StepsUnchanged("downloader")

\* line 62 with max_download_retries 0: no pass of the loop, the function ends and
\* gives None
download_none ==
    /\ downloader.pc = "attempt"
    /\ downloader.max_retries = 0
    /\ downloader' = [downloader EXCEPT !.pc = "returned", !.returned = "None"]
    /\ RunUnchanged
    /\ StepsUnchanged("downloader")

NextDownload == download_attempt \/ download_none

SpecDownload == InitDownload /\ [][NextDownload]_vars

-----------------------------------------------------------------------------
(* SecretManager.get_secret *)

\* the cache is never consulted
cached_Never(cache, key) == FALSE

\* line 82: key in self._cache
cached(cache, key) == key \in DOMAIN cache

\* the texts the variable store holds
SecretTexts == {"{\"GOOGLE_API_KEY\": \"k1\"}", "{}", "null", "k1"}

\* line 84: json.loads on the texts of SecretTexts; the last is not JSON
json_loads(text) ==
    CASE text = "{\"GOOGLE_API_KEY\": \"k1\"}" ->
            [raised |-> "no", value |-> PDict([GOOGLE_API_KEY |-> PStr(<<"k", "1">>)])]
      [] text = "{}" -> [raised |-> "no", value |-> PDict(EmptyDict)]
      [] text = "null" -> [raised |-> "no", value |-> PNone]
      [] OTHER -> [raised |-> "JSONDecodeError", value |-> PNone]

\* line 84: wmill.get_variable gives the text stored under the key or raises
VariableOutcomes == [raised : {"no"}, text : SecretTexts] \cup {[raised |-> "Exception", text |-> ""]}

SecretKeys == {"u/hungnguyen131002/googe_api_key", "u/other/key"}

\* lines 77-78: a new SecretManager, and no call made yet
InitSecrets ==
    /\ IdleRun
    /\ IdleSteps("secret_manager")
    /\ secret_manager = [pc |-> "ready", _cache |-> EmptyDict, calls |-> 0,
                         key |-> "", before |-> EmptyDict, store_called |-> FALSE,
                         raised |-> "no", returned |-> PNone,
                         loads |-> [k \in SecretKeys |-> 0],
                         reads |-> [k \in SecretKeys |-> 0]]

\* lines 80-92: a call whose key is in the cache
get_secret_cached ==
    /\ secret_manager.pc = "ready"
    /\ secret_manager.calls < MaxCalls
    /\ \E key \in SecretKeys :
          /\ cached(secret_manager._cache, key)
          /\ secret_manager' =
                [secret_manager EXCEPT !.calls = @ + 1, !.key = key,
                                       !.before = secret_manager._cache,
                                       !.store_called = FALSE, !.raised = "no",
                                       !.returned = secret_manager._cache[key]]
    /\ RunUnchanged
    /\ StepsUnchanged("secret_manager")

\* lines 80-92: a call whose key is not in the cache
get_secret_load ==
    /\ secret_manager.pc = "ready"
    /\ secret_manager.calls < MaxCalls
    /\ \E key \in SecretKeys, variable \in VariableOutcomes :
          /\ ~cached(secret_manager._cache, key)
          /\ LET called == [secret_manager EXCEPT
                               !.calls = @ + 1, !.key = key,
                               !.before = secret_manager._cache,
                               !.store_called = TRUE, !.reads[key] = @ + 1]
                 secret_data == json_loads(variable.text)
             IN  secret_manager' =
                    IF variable.raised # "no"
                    THEN [called EXCEPT !.raised = variable.raised, !.returned = PNone]
                    ELSE IF secret_data.raised # "no"
                    THEN [called EXCEPT !.raised = secret_data.raised,
                                        !.returned = PNone]
                    ELSE [called EXCEPT !._cache = Put(@, key, secret_data.value),
                                        !.loads[key] = @ + 1, !.raised = "no",
                                        !.returned = secret_data.value]
    /\ RunUnchanged
    /\ StepsUnchanged("secret_manager")

NextSecrets == get_secret_cached \/ get_secret_load

SpecSecrets == InitSecrets /\ [][NextSecrets]_vars

-----------------------------------------------------------------------------
(* polite_flow, extract top/bottom n indices: main *)

\* line 15: the names of market_indices in the order of the dict
IndexNames == <<"VNINDEX", "VN30", "HNXINDEX", "UPCOM">>

\* line 16: phan_tram, in tenths of a percent
Percentages == (0 - MaxPercent)..MaxPercent

\* lines 14-28: all_indices for the phan_tram values of market_indices
all_indices_of(market_indices) ==
    [k \in 1..Len(market_indices) |->
        [name |-> IndexNames[k], percentage |-> market_indices[k]]]

\* lines 29-31: sorted(all_indices, key=percentage, reverse=True); equal keys keep
\* their order
RECURSIVE InsertDescending(_, _)
InsertDescending(x, sorted) ==
    IF sorted = <<>> THEN <<x>>
    ELSE IF Head(sorted).percentage < x.percentage THEN <<x>> \o sorted
    ELSE <<Head(sorted)>> \o InsertDescending(x, Tail(sorted))

RECURSIVE sorted_indices_of(_)
sorted_indices_of(all_indices) ==
    IF all_indices = <<>> THEN <<>>
    ELSE InsertDescending(all_indices[Len(all_indices)],
                          sorted_indices_of(SubSeq(all_indices, 1, Len(all_indices) - 1)))

\* [idx for idx in xs if keep(idx)] for the three filters of lines 32-42
RECURSIVE Filtered(_, _)
Filtered(xs, sign) ==
    IF xs = <<>> THEN <<>>
    ELSE LET p == Head(xs).percentage
             keep == CASE sign = "> 0" -> p > 0
                       [] sign = "< 0" -> p < 0
                       [] sign = ">= 0" -> p >= 0
         IN  (IF keep THEN <<Head(xs)>> ELSE <<>>) \o Filtered(Tail(xs), sign)

\* xs[-n:] for n >= 1
LastOf(xs, n) == SubSeq(xs, Max2(Len(xs) - n, 0) + 1, Len(xs))

\* lines 32-34
top_gaining_indices_of(sorted_indices, top_count) ==
    Take(Filtered(sorted_indices, "> 0"), top_count)

\* lines 35-43
top_losing_indices_of(sorted_indices, top_count) ==
    LET top_losing_indices == Take(Filtered(sorted_indices, "< 0"), top_count)
        remaining_count == top_count - Len(top_losing_indices)
    IN  IF Len(top_losing_indices) < top_count
        THEN top_losing_indices
                \o LastOf(Filtered(sorted_indices, ">= 0"), remaining_count)
        ELSE top_losing_indices

\* lines 7-91: the dict main returns
extract_indices(market_data, top_count) ==
    IF ~market_data.success
    THEN [success |-> FALSE, error |-> "Invalid market data",
          top_gaining_indices |-> <<>>, top_losing_indices |-> <<>>]
    ELSE IF market_data.market_indices = <<>>
    THEN [success |-> FALSE, error |-> "No market indices data found",
          top_gaining_indices |-> <<>>, top_losing_indices |-> <<>>]
    ELSE LET sorted_indices == sorted_indices_of(all_indices_of(market_data.market_indices))
         IN  [success |-> TRUE, error |-> "",
              top_gaining_indices |-> top_gaining_indices_of(sorted_indices, top_count),
              top_losing_indices |-> top_losing_indices_of(sorted_indices, top_count)]

InitIndices ==
    /\ IdleRun
    /\ IdleSteps("extractor")
    /\ \E success \in BOOLEAN, top_count \in 1..MaxTopCount :
       \E market_indices \in UNION {[1..n -> Percentages] : n \in 0..Len(IndexNames)} :
          extractor = [pc |-> "main", top_count |-> top_count,
                       market_data |-> [success |-> success,
                                        market_indices |-> market_indices],
                       result |-> PNone]

\* lines 5-91
extract_main ==
    /\ extractor.pc = "main"
    /\ extractor' = [extractor EXCEPT
                        !.pc = "returned",
                        !.result = extract_indices(extractor.market_data,
                                                   extractor.top_count)]
    /\ RunUnchanged
    /\ StepsUnchanged("extractor")

NextIndices == extract_main

SpecIndices == InitIndices /\ [][NextIndices]_vars

-----------------------------------------------------------------------------
(* The merge_inputs of hands_down_flow and report_chung_khoan_1, on objects: an  *)
(* index_summary is the list of the addresses of its entries in the store       *)

\* e[key] / 10**unit: KeyError without the key, TypeError for a str or None
LegacyQuotient(e, key, unit) ==
    IF key \notin DOMAIN e THEN [raised |-> "KeyError", val |-> PNone]
    ELSE IF e[key].t # "num" THEN [raised |-> "TypeError", val |-> PNone]
    ELSE [raised |-> "no", val |-> DivPow10(e[key], unit)]

\* lines 19-21: the entry is converted where it is, and the report refers to it
legacy_convert(store, addr) ==
    LET e == store[addr]
        qty == LegacyQuotient(e, "allQty", 6)
        withQty == Put(e, "allQty", qty.val)
        value == LegacyQuotient(withQty, "allValue", 9)
    IN  IF qty.raised # "no" THEN [raised |-> qty.raised, store |-> store, addr |-> addr]
        ELSE IF value.raised # "no"
        THEN [raised |-> value.raised, addr |-> addr,
              store |-> [store EXCEPT ![addr] = withQty]]
        ELSE [raised |-> "no", addr |-> addr,
              store |-> [store EXCEPT ![addr] = Put(withQty, "allValue", value.val)]]

\* lines 17-21: the loop over data["index_summary"]
RECURSIVE legacy_summary(_, _, _)
legacy_summary(store, addrs, done) ==
    IF addrs = <<>> THEN [raised |-> "no", store |-> store, index_summary |-> done]
    ELSE LET e == legacy_convert(store, Head(addrs))
         IN  IF e.raised # "no"
             THEN [raised |-> e.raised, store |-> e.store, index_summary |-> done]
             ELSE legacy_summary(e.store, Tail(addrs), Append(done, e.addr))

\* lines 7-31: the loop over args, from the record at position first
RECURSIVE legacy_records(_, _, _, _)
legacy_records(store, acc, records, first) ==
    IF first > Len(records) THEN [raised |-> "no", store |-> store, merged |-> acc]
    ELSE LET data == records[first]
         IN  IF DOMAIN data = {} THEN legacy_records(store, acc, records, first + 1)
             ELSE LET summary == IF "index_summary" \in DOMAIN data
                                 THEN legacy_summary(store, data["index_summary"], <<>>)
                                 ELSE [raised |-> "no", store |-> store,
                                       index_summary |-> <<>>]
                      withSummary == IF "index_summary" \in DOMAIN data
                                     THEN Put(acc, "index_summary", summary.index_summary)
                                     ELSE acc
                      withAll == IF "khoi_tu_doanh" \in DOMAIN data
                                 THEN Put(withSummary, "khoi_tu_doanh", data["khoi_tu_doanh"])
                                 ELSE withSummary
                 IN  IF summary.raised # "no"
                     THEN [raised |-> summary.raised, store |-> summary.store,
                           merged |-> withSummary]
                     ELSE legacy_records(summary.store, withAll, records, first + 1)

\* the report as the caller reads it when the call returns: the entries by value
ReadReport(store, acc) ==
    IF "index_summary" \in DOMAIN acc
    THEN Put(acc, "index_summary",
             [k \in 1..Len(acc["index_summary"]) |-> store[acc["index_summary"][k]]])
    ELSE acc

\* the entries of the store: raw numbers, a zero, "N/A", a missing allValue
LegacyEntries ==
    { Entry("VNINDEX", PNum(5, 6), PNum(9, 9)).d,
      Entry("VN30", PNum(0, 0), PNum(0, 0)).d,
      Entry("HNX30", NA, PNum(1, 9)).d,
      Entry("UPCOM", PNum(25, 5), Absent).d }

LegacyRecords(store) ==
    {EmptyDict}
    \cup {One("index_summary", s) : s \in SummariesOf(store)}
    \cup {One("khoi_tu_doanh", PNum(125, -1))}
    \cup {Both(One("index_summary", s), One("khoi_tu_doanh", PNum(-3, 0))) :
            s \in SummariesOf(store)}

InitLegacy ==
    /\ IdleRun
    /\ IdleSteps("legacy")
    /\ \E store \in UNION {[1..n -> LegacyEntries] : n \in 1..MaxObjects} :
       \E records \in UNION {[1..n -> LegacyRecords(store)] : n \in 0..MaxArgs} :
          legacy = [pc |-> "call", store |-> store, before |-> store, args |-> records,
                    calls |-> 0, reports |-> <<>>, raised |-> "no"]

\* lines 4-32: one call of merge_inputs on args; the caller calls it twice
legacy_merge_inputs ==
    /\ legacy.pc = "call"
    /\ legacy.calls < Len(<<"first call", "second call">>)
    /\ LET ended == legacy_records(legacy.store, EmptyDict, legacy.args, 1)
       IN  legacy' =
              IF ended.raised # "no"
              THEN [legacy EXCEPT !.pc = "raised", !.calls = @ + 1,
                                  !.store = ended.store, !.raised = ended.raised]
              ELSE [legacy EXCEPT !.calls = @ + 1, !.store = ended.store,
                                  !.reports = Append(@, ReadReport(ended.store, ended.merged))]
    /\ RunUnchanged
    /\ StepsUnchanged("legacy")

NextLegacy == legacy_merge_inputs

SpecLegacy == InitLegacy /\ [][NextLegacy]_vars

-----------------------------------------------------------------------------
(* csv_report.inline_script.py (18_8 flow): the rows generate_csv_content_with_  *)
(* metadata writes, read back by the previous-day lookup of the next run.  A   *)
(* cell is its characters, written without diacritics; the arrows of the       *)
(* generator are written ^ (up), v (down) and = (level).  csv.writer and       *)
(* csv.reader give back the cells they were given, none of them holding a      *)
(* comma, a quote or a line break.                                             *)

\* lines 22-29: index_mapping, in its order
index_mapping ==
    << [data |-> "HNX30", display |-> <<"H", "N", "X", "3", "0">>],
       [data |-> "HNXIndex", display |-> <<"H", "N", "X", "I", "N", "D", "E", "X">>],
       [data |-> "HNXUpcomIndex", display |-> <<"U", "P", "C", "O", "M">>],
       [data |-> "VN30", display |-> <<"V", "N", "3", "0">>],
       [data |-> "VNINDEX", display |-> <<"V", "N", "I", "N", "D", "E", "X">>] >>

\* lines 32-42
csv_headers ==
    << HeaderIndex, <<"D", "I", "E", "M">>, <<"(", "+", "/", "-", ")">>, <<"(", "+", "/", "-", ")", "%">>, HeaderKlgd, <<"(", "+", "/", "-", "%", "K", "L", "G", "D", ")">>,
       HeaderGtdg, <<"(", "+", "/", "-", "%", "G", "T", "G", "D", ")">>, <<"C", "P", " ", "t", "a", "n", "g", "/", "g", "i", "a", "m">> >>

NotAvailable == <<"N", "/", "A">>

\* the decimal digits of n >= 0
RECURSIVE DecimalDigits(_)
DecimalDigits(n) ==
    IF n < 10 THEN <<DigitChar(n)>> ELSE Append(DecimalDigits(n \div 10), DigitChar(n % 10))

\* the value is written without decimals
Formatted_Whole(x) ==
    LET units == At(Round(x, 0), 0)
    IN  (IF x.m < 0 THEN <<"-">> ELSE <<>>)
           \o DecimalDigits(IF units < 0 THEN 0 - units ELSE units)

\* f"{val:.2f}"
Formatted(x) ==
    LET cents == At(Round(x, 2), 0 - 2)
        size == IF cents < 0 THEN 0 - cents ELSE cents
    IN  (IF x.m < 0 THEN <<"-">> ELSE <<>>)
           \o DecimalDigits(size \div 100) \o <<".">> \o Padded(size % 100, 2)

\* lines 189-194: _safe_float_format; raised is the ValueError or TypeError of float()
safe_float_format(item, key) ==
    IF key \notin DOMAIN item \/ item[key] = NA \/ item[key] = PNone
    THEN [raised |-> FALSE, cell |-> NotAvailable]
    ELSE IF ~Float(item[key]).ok THEN [raised |-> TRUE, cell |-> NotAvailable]
    ELSE [raised |-> FALSE, cell |-> Formatted(Float(item[key]).val)]

\* lines 196-220: _format_with_arrow and _format_with_arrow_percent, which differ in
\* name only, of item.get(key, 0)
format_with_arrow(item, key) ==
    LET value == Get(item, key, PNum(0, 0))
        val == Float(value).val
    IN  IF ~Float(value).ok THEN NotAvailable
        ELSE IF val.m = 0 THEN <<"=">> \o Formatted(val)
        ELSE IF val.m > 0 THEN <<"^">> \o Formatted(val)
        ELSE <<"v">> \o Formatted(Norm(0 - val.m, val.e))

\* lines 235-243: _format_stock_changes, for an entry without the three counts
format_stock_changes == <<"^", "0", "|", "=", "0", "|", "v", "0">>

\* lines 181-185: the row of an index without an entry, or whose row raised
NotAvailableRow(display) == <<display>> \o [k \in 1..8 |-> NotAvailable]

\* lines 156-159: index_dict.get(data_label), PNone for None: the last entry with the id
index_dict_get(index_data, data_label) ==
    LET ks == {k \in 1..Len(index_data) :
                  Get(index_data[k].d, "indexId", "Unknown") = data_label}
    IN  IF ks = {} THEN PNone ELSE index_data[CHOOSE k \in ks : \A h \in ks : h <= k]

\* lines 161-185: the row of one index
index_row(index_data, mapping) ==
    LET found == index_dict_get(index_data, mapping.data)
        item == found.d
        indexValue == safe_float_format(item, "indexValue")
        allQty == safe_float_format(item, "allQty")
        allValue == safe_float_format(item, "allValue")
    IN  IF ~Truthy(found) THEN NotAvailableRow(mapping.display)
        ELSE IF indexValue.raised \/ allQty.raised \/ allValue.raised
        THEN NotAvailableRow(mapping.display)
        ELSE << mapping.display, indexValue.cell, format_with_arrow(item, "change"),
                format_with_arrow(item, "changePercent"), allQty.cell,
                format_with_arrow(item, "klgd_change_percent"), allValue.cell,
                format_with_arrow(item, "gtdg_change_percent"), format_stock_changes >>

\* lines 151-194: _generate_index_rows_with_percentages
generate_index_rows(index_data) ==
    [k \in 1..Len(index_mapping) |-> index_row(index_data, index_mapping[k])]

\* lines 245-317: the rows _add_enhanced_sections adds for a report that holds no
\* other data than its index_summary
enhanced_sections ==
    << <<<<"K", "h", "o", "i", " ", "n", "g", "o", "a", "i", ":", " ", "N", "/", "A">>>>, <<<<"T", "o", "p", " ", "m", "u", "a", " ", "r", "o", "n", "g", ":", " ", "N", "/", "A">>>>, <<<<"T", "o", "p", " ", "b", "a", "n", " ", "r", "o", "n", "g", ":", " ", "N", "/", "A">>>>,
       <<<<"K", "h", "o", "i", " ", "t", "u", " ", "d", "o", "a", "n", "h", ":", " ", "^", "0", " ", "t", "y", " ", "d", "o", "n", "g">>>>, <<<<"N", "h", "o", "m", " ", "n", "g", "a", "n", "h", " ", "n", "o", "i", " ", "b", "a", "t", ":", " ", "N", "/", "A">>>>,
       <<<<"C", "o", " ", "p", "h", "i", "e", "u", " ", "t", "a", "m", " ", "d", "i", "e", "m", ":", " ", "N", "/", "A">>>> >>

\* lines 138-147: the rows of the quality report, for a report with warnings
quality_report(warnings) ==
    IF warnings = <<>> THEN <<>>
    ELSE << <<>>, <<<<"=", "=", "=", " ", "B", "A", "O", " ", "C", "A", "O", " ", "C", "H", "A", "T", " ", "L", "U", "O", "N", "G", " ", "D", "U", " ", "L", "I", "E", "U", " ", "=", "=", "=">>>>, <<<<"C", "a", "n", "h", " ", "b", "a", "o", ":">>, warnings>> >>

\* lines 101-149: generate_csv_content_with_metadata: the title and the metadata
\* (without the date and the time of the run), an empty row, the headers, the index
\* rows, an empty row, the sections, the quality report
generate_csv_content(index_data, warnings) ==
    << <<<<"T", "O", "N", "G", " ", "K", "E", "T", " ", "G", "I", "A", "O", " ", "D", "I", "C", "H", " ", "P", "H", "I", "E", "N">>>>, <<<<"T", "y", " ", "l", "e", " ", "t", "h", "a", "n", "h", " ", "c", "o", "n", "g", ":", " ", "0", ".", "0", "%">>>>, <<>>, csv_headers >>
       \o (IF index_data # <<>> THEN generate_index_rows(index_data)
           ELSE << <<<<"N", "o", " ", "i", "n", "d", "e", "x", " ", "d", "a", "t", "a", " ", "a", "v", "a", "i", "l", "a", "b", "l", "e">>>> >>)
       \o << <<>> >> \o enhanced_sections \o quality_report(warnings)

\* the entries of the report: allQty and allValue are the converted values
ReportEntry(id, indexValue, qty, val) ==
    PDict(Both(Entry(id, qty, val).d,
               IF indexValue = Absent THEN EmptyDict ELSE One("indexValue", indexValue)))

ReportEntries ==
    { ReportEntry("VNINDEX", PNum(12505, -1), PNum(12346, -3), PNum(9, 0)),
      ReportEntry("HNXIndex", Absent, PNum(5, 0), PNum(-1504, -3)),
      ReportEntry("HNXUpcomIndex", NA, NA, PNum(129, -3)),
      ReportEntry("VN30", PStr(<<"-">>), PNum(75, -1), PNum(225, -2)),
      ReportEntry("VNXALL", PNum(1300, 0), PNum(8, 0), PNum(4, 0)),
      ReportEntry("HNX30", PNum(2505, -1), PStr(<<"3", ".", "1", "4", "1", "5", "9">>),
                  PNum(1, 3)),
      ReportEntry("VNINDEX", PNum(1249, 0), Absent, PNum(95, -1)) }

InitRoundTrip ==
    /\ IdleRun
    /\ IdleSteps("roundtrip")
    /\ \E index_summary \in UNION {[1..n -> ReportEntries] : n \in 0..MaxItems},
          warnings \in {<<>>, <<"V", "N", "I", "N", "D", "E", "X">>} :
          roundtrip = [pc |-> "generate", index_summary |-> index_summary,
                       warnings |-> warnings,
                       csv_rows |-> <<>>, row |-> 0, headers |-> NoHeaders,
                       last_day_gtdg |-> EmptyDict, last_day_klgd |-> EmptyDict,
                       result |-> EmptyDict]

\* csv_report lines 361-368: the report of one run is written and stored
generate_csv ==
    /\ roundtrip.pc = "generate"
    /\ roundtrip' = [roundtrip EXCEPT
                        !.pc = "read",
                        !.csv_rows = generate_csv_content(roundtrip.index_summary,
                                                         roundtrip.warnings)]
    /\ RunUnchanged
    /\ StepsUnchanged("roundtrip")

\* the lookup of the next run, lines 79-148 for the next row
read_csv_row ==
    /\ roundtrip.pc = "read"
    /\ roundtrip.row < Len(roundtrip.csv_rows)
    /\ LET st == ReadRow(roundtrip.headers, roundtrip.last_day_gtdg,
                         roundtrip.last_day_klgd, roundtrip.csv_rows[roundtrip.row + 1])
           read == [roundtrip EXCEPT !.row = @ + 1, !.headers = st.headers,
                                     !.last_day_gtdg = st.last_day_gtdg,
                                     !.last_day_klgd = st.last_day_klgd]
       IN  roundtrip' = IF st.error = "" THEN read
                        ELSE [read EXCEPT !.pc = "returned",
                                          !.result = LookupFailed(st.error)]
    /\ RunUnchanged
    /\ StepsUnchanged("roundtrip")

\* the lookup of the next run, lines 150-155
read_csv_return ==
    /\ roundtrip.pc = "read"
    /\ roundtrip.row = Len(roundtrip.csv_rows)
    /\ roundtrip' = [roundtrip EXCEPT
                        !.pc = "returned",
                        !.result = Found(roundtrip.last_day_gtdg, roundtrip.last_day_klgd)]
    /\ RunUnchanged
    /\ StepsUnchanged("roundtrip")

NextRoundTrip == generate_csv \/ read_csv_row \/ read_csv_return

SpecRoundTrip == InitRoundTrip /\ [][NextRoundTrip]_vars

-----------------------------------------------------------------------------
(* download_last_day's_csv (18_8 flow) main from its first line: the key it     *)
(* builds from s3_config, the request it sends and what it returns.  The 27_7  *)
(* flow holds the same lines 29-36 with the day before in place of the last    *)
(* trading day.                                                                *)

\* lines 56-61
InvalidBaseName ==
    [success |-> FALSE, last_day_gtdg |-> EmptyDict, last_day_klgd |-> EmptyDict,
     error |-> "Invalid base_name structure in s3_config."]

\* line 55: s3_config.get("csv_key", "").split("_")
base_name_parts_of(s3_config) ==
    Split(IF s3_config.csv_key = Absent THEN <<>> ELSE s3_config.csv_key.s, "_")

\* line 56: not base_name_parts
NotParts(parts) == parts = <<>>

\* lines 75-148: the rows of the body, read to the end or to the row that returns
RECURSIVE ReadRows(_, _)
ReadRows(rows, n) ==
    IF n = 0 THEN LoopState(NoHeaders, EmptyDict, EmptyDict, "", FALSE)
    ELSE LET st == ReadRows(rows, n - 1)
         IN  IF st.error # "" THEN st
             ELSE ReadRow(st.headers, st.last_day_gtdg, st.last_day_klgd, rows[n])

\* lines 70-180: what main returns for the object S3 answers with
lookup_of(object) ==
    CASE object.kind = "NoSuchKey" -> NotFound
      [] object.kind = "ClientError" -> LookupFailed("ClientError")
      [] object.kind = "exception" ->
            LookupFailed("Unexpected error processing trading day's CSV")
      [] OTHER ->
            LET st == ReadRows(object.rows, Len(object.rows))
            IN  IF st.error # "" THEN LookupFailed(st.error)
                ELSE Found(st.last_day_gtdg, st.last_day_klgd)

\* the csv_key of the s3_config: none, empty, or what validated_config generates
CsvKeys(now) ==
    {Absent, PStr(<<>>)}
       \cup {PStr(generate_datetime_csv_key(base_name, now)) :
                 base_name \in {DefaultBaseName, <<"r">>}}

\* the objects S3 may answer with
StoredObjects == {o \in ObjectUniverse : Len(o.rows) <= MaxBodyRows}

InitPreviousDay ==
    /\ IdleRun
    /\ IdleSteps("previous_day")
    /\ \E now \in {day \in RunDays : day < FirstRunDay + 7}, csv_key \in CsvKeys(FirstRunDay),
          bucket \in {Absent, PStr(<<"a", "-", "1">>)}, object \in StoredObjects :
          previous_day = [pc |-> "start", now |-> now,
                          s3_config |-> [csv_key |-> csv_key, bucket |-> bucket],
                          object |-> object, target_key |-> <<>>, requests |-> <<>>,
                          result |-> EmptyDict]

\* lines 45-65: the client, the last trading day, the pieces of csv_key and the key
previous_day_key ==
    /\ previous_day.pc = "start"
    /\ LET last_trading_day == get_last_trading_day(previous_day.now)
           base_name_parts == base_name_parts_of(previous_day.s3_config)
           base_name == Join(SubSeq(base_name_parts, 1, Len(base_name_parts) - 1), "_")
       IN  previous_day' =
             IF NotParts(base_name_parts)
             THEN [previous_day EXCEPT !.pc = "returned", !.result = InvalidBaseName]
             ELSE [previous_day EXCEPT
                     !.pc = "request",
                     !.target_key = base_name \o <<"_">> \o strftime(last_trading_day)
                                       \o DotCsv]
    /\ RunUnchanged
    /\ StepsUnchanged("previous_day")

\* lines 69-180: s3_config["bucket"] raises KeyError inside the try block when there
\* is no bucket; otherwise get_object is requested and its answer is read
previous_day_get_object ==
    /\ previous_day.pc = "request"
    /\ previous_day' =
          IF previous_day.s3_config.bucket = Absent
          THEN [previous_day EXCEPT
                  !.pc = "returned",
                  !.result = LookupFailed("Unexpected error processing trading day's CSV")]
          ELSE [previous_day EXCEPT
                  !.pc = "returned",
                  !.requests = Append(@, [Bucket |-> previous_day.s3_config.bucket.s,
                                          Key |-> previous_day.target_key]),
                  !.result = lookup_of(previous_day.object)]
    /\ RunUnchanged
    /\ StepsUnchanged("previous_day")

NextPreviousDay == previous_day_key \/ previous_day_get_object

SpecPreviousDay == InitPreviousDay /\ [][NextPreviousDay]_vars

-----------------------------------------------------------------------------
(* inline_script_1 (rag chunking flow) DocumentDownloader.download_multiple_     *)
(* documents: download_document for each id of the list, in order.  The wait   *)
(* of line 83 between two attempts is that of download_attempt above and       *)
(* changes nothing here.                                                       *)

\* response.content: a byte string
Bytes(b) == [t |-> "bytes", b |-> b]

DocumentIds == {"d1", "d2"}

\* line 92: downloaded_content[document_id] = content
keep_content(downloaded_content, document_id, content) ==
    Put(downloaded_content, document_id, content)

InitDocuments ==
    /\ IdleRun
    /\ IdleSteps("documents")
    /\ \E max_retries \in 0..MaxDownloadRetries,
          document_ids \in UNION {[1..n -> DocumentIds] : n \in 0..MaxDocuments} :
          documents = [pc |-> "download", max_retries |-> max_retries,
                       document_ids |-> document_ids, k |-> 1, attempt |-> 0,
                       gets |-> [n \in 1..Len(document_ids) |-> 0],
                       ended |-> <<>>, downloaded_content |-> EmptyDict]

\* lines 89-95 and 62-83: one pass of the loop of download_document for the document
\* at hand; its return stores the content, its raise is caught at line 93, and either
\* way the next document is at hand
documents_attempt ==
    /\ documents.pc = "download"
    /\ documents.k <= Len(documents.document_ids)
    /\ documents.attempt < documents.max_retries
    /\ \E outcome \in GetOutcomes :
          LET got == [documents EXCEPT !.gets[documents.k] = @ + 1]
              next == [got EXCEPT !.k = @ + 1, !.attempt = 0]
          IN  documents' =
                 CASE outcome = "content" ->
                        [next EXCEPT
                            !.ended = Append(@, "content"),
                            !.downloaded_content =
                               keep_content(@, documents.document_ids[documents.k],
                                            Bytes(<<"b">>))]
                   [] outcome = "empty" -> [next EXCEPT !.ended = Append(@, "raised")]
                   [] outcome \in RequestFailures ->
                        IF got.attempt = got.max_retries - 1
                        THEN [next EXCEPT !.ended = Append(@, "raised")]
                        ELSE [got EXCEPT !.attempt = @ + 1]
    /\ RunUnchanged
    /\ StepsUnchanged("documents")

\* lines 89-92 with max_download_retries 0: download_document makes no pass of its
\* loop and gives None, which is stored as the content
documents_none ==
    /\ documents.pc = "download"
    /\ documents.k <= Len(documents.document_ids)
    /\ documents.max_retries = 0
    /\ documents' = [documents EXCEPT
                        !.k = @ + 1,
                        !.ended = Append(@, "None"),
                        !.downloaded_content =
                           keep_content(@, documents.document_ids[documents.k], PNone)]
    /\ RunUnchanged
    /\ StepsUnchanged("documents")

\* line 97
documents_return ==
    /\ documents.pc = "download"
    /\ documents.k > Len(documents.document_ids)
    /\ documents' = [documents EXCEPT !.pc = "returned"]
    /\ RunUnchanged
    /\ StepsUnchanged("documents")

NextDocuments == documents_attempt \/ documents_none \/ documents_return

SpecDocuments == InitDocuments /\ [][NextDocuments]_vars

-----------------------------------------------------------------------------
(* Vocabulary of the claims about merge_inputs *)

Returned == pc = "done"

\* the records of args that the loop does not skip
NonEmpty == {j \in 1..Len(args) : Truthy(args[j])}

\* the position of the last non-empty record holding key, 0 when there is none
LastWith(key) ==
    LET js == {j \in NonEmpty : key \in DOMAIN args[j].d}
    IN  IF js = {} THEN 0 ELSE CHOOSE j \in js : \A h \in js : h <= j

\* the index_summary the report was built from is a non-empty list
SummaryProcessed ==
    /\ LastWith("index_summary") > 0
    /\ Truthy(args[LastWith("index_summary")].d["index_summary"])

InItems == args[LastWith("index_summary")].d["index_summary"].items

OutItems == report.d["index_summary"].items

Numeric(item, key) == key \in DOMAIN item /\ Float(item[key]).ok

\* the previous-day value of the entry is present in the map
HasPrev(name, item) ==
    /\ name \in DOMAIN last_day_data
    /\ "indexId" \in DOMAIN item
    /\ item["indexId"] \in DOMAIN last_day_data[name]

Prev(name, item) == last_day_data[name][item["indexId"]]

PrevNonZero(name, item) == HasPrev(name, item) /\ Prev(name, item).m # 0

\* the unit-converted current value
Cur(item, key, unit) == DivPow10(Float(item[key]).val, unit)

\* the change of key against the previous-day map name is the rounded percentage
DeltaIs(inItem, outItem, key, unit, name, pctKey) ==
    (Numeric(inItem, key) /\ PrevNonZero(name, inItem)) =>
        /\ pctKey \in DOMAIN outItem
        /\ outItem[pctKey] =
             RoundQuot(Sub(Cur(inItem, key, unit), Prev(name, inItem)), Prev(name, inItem), 2, 2)

\* C1: every entry with a numeric allQty (allValue) and a non-zero previous-day
\* value p gets klgd_change_percent (gtdg_change_percent) = round((c - p) / p * 100, 2),
\* c the unit-converted current value
Thm_C1 ==
    (Returned /\ SummaryProcessed) =>
        \A k \in 1..Len(InItems) :
            /\ DeltaIs(InItems[k].d, OutItems[k].d, "allQty", 6, "last_day_klgd",
                       "klgd_change_percent")
            /\ DeltaIs(InItems[k].d, OutItems[k].d, "allValue", 9, "last_day_gtdg",
                       "gtdg_change_percent")

\* 2.5 against 3: (2.5 - 3) / 3 * 100 = -16.666..., rounded to -16.67
Wit_C1 ==
    /\ Returned /\ SummaryProcessed
    /\ \E k \in 1..Len(InItems) :
          /\ Numeric(InItems[k].d, "allQty")
          /\ PrevNonZero("last_day_klgd", InItems[k].d)
          /\ OutItems[k].d["klgd_change_percent"] = PNum(-1667, -2)

\* the original C2, for the entries with a numeric current value: a zero or absent
\* previous-day value gives a change percent of 0
DeltaZero(inItem, outItem, key, name, pctKey) ==
    (Numeric(inItem, key) /\ ~PrevNonZero(name, inItem)) =>
        pctKey \in DOMAIN outItem /\ outItem[pctKey] = PNum(0, 0)

Orig_C2 ==
    (Returned /\ SummaryProcessed) =>
        \A k \in 1..Len(InItems) :
            /\ DeltaZero(InItems[k].d, OutItems[k].d, "allQty", "last_day_klgd",
                         "klgd_change_percent")
            /\ DeltaZero(InItems[k].d, OutItems[k].d, "allValue", "last_day_gtdg",
                         "gtdg_change_percent")

DeltaOmitted(inItem, outItem, name, pctKey, amtKey, lastKey) ==
    ~PrevNonZero(name, inItem) =>
        /\ pctKey \notin DOMAIN outItem
        /\ amtKey \notin DOMAIN outItem
        /\ outItem[lastKey] = PNum(0, 0)

\* some record holds a truthy index_summary that cannot be iterated as dicts
HasMalformedSummary ==
    \E j \in NonEmpty :
        /\ "index_summary" \in DOMAIN args[j].d
        /\ Truthy(args[j].d["index_summary"])
        /\ SummaryRaises(args[j].d["index_summary"])

\* C2 (amended): an entry whose previous-day value is zero or absent carries no
\* change percent (and no change amount) at all, its *_last_day is 0, and the
\* zero division never makes the merge raise
Thm_C2 ==
    /\ (Returned /\ SummaryProcessed) =>
          \A k \in 1..Len(InItems) :
              /\ DeltaOmitted(InItems[k].d, OutItems[k].d, "last_day_klgd",
                              "klgd_change_percent", "klgd_change_amount", "klgd_last_day")
              /\ DeltaOmitted(InItems[k].d, OutItems[k].d, "last_day_gtdg",
                              "gtdg_change_percent", "gtdg_change_amount", "gtdg_last_day")
    /\ pc = "raised" => HasMalformedSummary

\* a numeric allQty against a previous-day value of zero: converted, no percent
Wit_C2 ==
    /\ Returned /\ SummaryProcessed
    /\ \E k \in 1..Len(InItems) :
          /\ Numeric(InItems[k].d, "allQty")
          /\ HasPrev("last_day_klgd", InItems[k].d)
          /\ Prev("last_day_klgd", InItems[k].d).m = 0
          /\ OutItems[k].d["allQty"] = PNum(5, 0)
          /\ "klgd_change_percent" \notin DOMAIN OutItems[k].d


\* what merge_inputs stores for key when it takes v from a record
Stored(key, v) ==
    IF key = "index_summary" /\ Truthy(v) THEN ProcessSummary(v, last_day_data) ELSE v

\* C3: last write wins: the report's value for a recognized key is the one of
\* the last non-empty record holding the key (for index_summary, its enriched
\* copy), whatever earlier records held; a key no record holds is not in the report
Thm_C3 ==
    Returned =>
        \A key \in DataKeys :
            IF LastWith(key) = 0 THEN key \notin DOMAIN report.d
            ELSE /\ key \in DOMAIN report.d
                 /\ report.d[key] = Stored(key, args[LastWith(key)].d[key])

\* two records both holding khoi_tu_doanh, with different values
Wit_C3 ==
    /\ Returned
    /\ Len(args) = 2
    /\ NonEmpty = {1, 2}
    /\ "khoi_tu_doanh" \in DOMAIN args[1].d
    /\ "khoi_tu_doanh" \in DOMAIN args[2].d
    /\ args[1].d["khoi_tu_doanh"] # args[2].d["khoi_tu_doanh"]
    /\ report.d["khoi_tu_doanh"] = args[2].d["khoi_tu_doanh"]

Meta == report.d["execution_metadata"]

\* the non-empty records whose success field is true or absent
SuccessfulRecords ==
    {j \in NonEmpty : "success" \notin DOMAIN args[j].d \/ args[j].d["success"] = TRUE}

\* C4: total_modules = len(args), successful_modules = the non-empty records whose
\* success is true or absent, success_rate = successful_modules / total_modules,
\* and 0 for an empty list
Thm_C4 ==
    Returned =>
        /\ Meta.total_modules = Len(args)
        /\ Meta.successful_modules = Cardinality(SuccessfulRecords)
        /\ Meta.success_rate.den > 0
        /\ Meta.success_rate.num * Meta.total_modules
              = Meta.successful_modules * Meta.success_rate.den
        /\ Len(args) = 0 => Meta.success_rate.num = 0

\* an empty entry counted in the total, and a record without a success field
Wit_C4 ==
    /\ Returned
    /\ Len(args) = 2
    /\ args[1] = PNone
    /\ Truthy(args[2]) /\ "success" \notin DOMAIN args[2].d
    /\ Meta.success_rate = [num |-> 1, den |-> 2]

Quality == report.d["data_quality"]

\* the merged map: the report without the two keys added at the end
MergedKeys == (DOMAIN report.d) \ {"execution_metadata", "data_quality"}

\* the original C5: passed is false exactly when one of the 8 required keys is absent
Orig_C5 == Returned => (Quality.passed = FALSE <=> \E key \in DataKeys : key \notin MergedKeys)

WarnedKeys == {"top_sectors", "top_netforeign", "top_interested", "khoi_tu_doanh"}

InSeq(x, xs) == \E k \in 1..Len(xs) : xs[k] = x

\* C5 (amended): passed is false exactly when index_summary is absent or empty,
\* and only that is an issue; khoi_ngoai, top_sectors, top_netforeign,
\* top_interested and khoi_tu_doanh, absent or empty, each add one warning and
\* leave passed alone; impact_up and impact_down are not looked at
Thm_C5 ==
    Returned =>
        /\ Quality.passed = HasTruthy(report.d, "index_summary")
        /\ Quality.issues = (IF Quality.passed THEN <<>> ELSE << <<"Missing index summary data">> >>)
        /\ InSeq(<<"Missing khoi ngoai data">>, Quality.warnings) <=> ~HasTruthy(report.d, "khoi_ngoai")
        /\ \A key \in WarnedKeys :
              InSeq(<<"Missing or empty ", key>>, Quality.warnings) <=> ~HasTruthy(report.d, key)
        /\ Len(Quality.warnings) =
              Cardinality({key \in WarnedKeys \cup {"khoi_ngoai"} : ~HasTruthy(report.d, key)})

\* the verdict passes although required keys are absent, with warnings only
Wit_C5 ==
    /\ Returned
    /\ Quality.passed
    /\ "khoi_ngoai" \notin MergedKeys
    /\ "impact_up" \notin MergedKeys
    /\ Quality.issues = <<>>
    /\ Len(Quality.warnings) = 5

UnitIs(inItem, outItem, key, unit) ==
    Numeric(inItem, key) => outItem[key] = DivPow10(Float(inItem[key]).val, unit)

\* C6: every entry with a numeric allQty / allValue comes out with allQty / 10^6
\* and allValue / 10^9, whether or not a previous-day value exists for it
Thm_C6 ==
    (Returned /\ SummaryProcessed) =>
        \A k \in 1..Len(InItems) :
            /\ UnitIs(InItems[k].d, OutItems[k].d, "allQty", 6)
            /\ UnitIs(InItems[k].d, OutItems[k].d, "allValue", 9)

\* 5_000_000 and 9_000_000_000 against 4 and 8: 5.0, 9.0, 25.0 and 12.5
Wit_C6 ==
    /\ Returned /\ SummaryProcessed
    /\ \E k \in 1..Len(InItems) :
          /\ InItems[k] = Entry("VNINDEX", PNum(5, 6), PNum(9, 9))
          /\ HasPrev("last_day_klgd", InItems[k].d)
          /\ HasPrev("last_day_gtdg", InItems[k].d)
          /\ Prev("last_day_klgd", InItems[k].d) = PNum(4, 0)
          /\ Prev("last_day_gtdg", InItems[k].d) = PNum(8, 0)
          /\ OutItems[k].d["allQty"] = PNum(5, 0)
          /\ OutItems[k].d["allValue"] = PNum(9, 0)
          /\ OutItems[k].d["klgd_change_percent"] = PNum(25, 0)
          /\ OutItems[k].d["gtdg_change_percent"] = PNum(125, -1)

\* five non-empty records, exactly one of them with success false
OneOfFiveFailed ==
    /\ Returned
    /\ Len(args) = 5
    /\ \A j \in 1..5 : Truthy(args[j])
    /\ Cardinality({j \in 1..5 : ~Succeeded(args[j].d)}) = 1

FourOfFive ==
    /\ Meta.success_rate = [num |-> 4, den |-> 5]
    /\ Meta.successful_modules = 4
    /\ Len(Meta.errors) = 1

\* the original C7: with one of five records failed, passed is true whenever all 8
\* required keys are in the merged map
Orig_C7 ==
    OneOfFiveFailed => /\ FourOfFive
                       /\ DataKeys \subseteq MergedKeys => Quality.passed = TRUE

\* C7: with one of five records failed, success_rate is 4/5, successful_modules is 4,
\* errors has one entry, and passed is true exactly when the merged index_summary is
\* not empty, so a failing record's default index_summary makes passed false
Thm_C7 ==
    OneOfFiveFailed => /\ FourOfFive
                       /\ Quality.passed = HasTruthy(report.d, "index_summary")

\* all 8 keys merged, the index_summary among them being the failing record's default
Wit_C7 ==
    /\ OneOfFiveFailed
    /\ FourOfFive
    /\ DataKeys \subseteq MergedKeys
    /\ \E j \in 1..5 : /\ ~Succeeded(args[j].d)
                       /\ LastWith("index_summary") = j
                       /\ args[j].d["index_summary"] = DefaultPayload("index_summary")
    /\ Quality.passed = FALSE

LookupReturned == pc = "returned"

\* the loop state after the first n rows of the report
RECURSIVE StateAfter(_)
StateAfter(n) ==
    IF n = 0 THEN LoopState(NoHeaders, EmptyDict, EmptyDict, "", FALSE)
    ELSE LET st == StateAfter(n - 1)
         IN  ReadRow(st.headers, st.last_day_gtdg, st.last_day_klgd, s3.rows[n])

\* float() raised while a row of the report was processed
RowRaised == s3.kind = "ok" /\ \E n \in 1..Len(s3.rows) : StateAfter(n).raised

BothMapsEmpty ==
    lookup_result.last_day_gtdg = EmptyDict /\ lookup_result.last_day_klgd = EmptyDict

NotFoundIsSuccess ==
    s3.kind = "NoSuchKey" =>
        /\ lookup_result.success = TRUE
        /\ BothMapsEmpty
        /\ "error" \notin DOMAIN lookup_result

\* the original C8: NoSuchKey is an empty success, and every other ClientError or
\* exception during download or parsing gives success false with both maps empty
Orig_C8 ==
    LookupReturned =>
        /\ NotFoundIsSuccess
        /\ (s3.kind \in {"ClientError", "exception"} \/ RowRaised) =>
               lookup_result.success = FALSE /\ BothMapsEmpty

\* C8: NoSuchKey is an empty success without an error field; any other ClientError or
\* exception of get_object or of the decoding gives success false with both maps empty;
\* a report that was read gives success true with the maps its rows built, also when
\* float() raised on some row; the lookup never ends by raising
Thm_C8 ==
    /\ s3.kind # "none" => pc # "raised"
    /\ LookupReturned =>
        /\ NotFoundIsSuccess
        /\ s3.kind \in {"ClientError", "exception"} =>
               /\ lookup_result.success = FALSE
               /\ BothMapsEmpty
               /\ "error" \in DOMAIN lookup_result
        /\ s3.kind = "ok" =>
               /\ lookup_result.success = TRUE
               /\ "error" \notin DOMAIN lookup_result
               /\ lookup_result.last_day_gtdg = StateAfter(Len(s3.rows)).last_day_gtdg
               /\ lookup_result.last_day_klgd = StateAfter(Len(s3.rows)).last_day_klgd

\* a row whose traded value converts and whose volume "-" does not: the lookup
\* succeeds and keeps the traded value
Wit_C8 ==
    /\ LookupReturned
    /\ RowRaised
    /\ lookup_result.success = TRUE
    /\ "VN30" \in DOMAIN lookup_result.last_day_gtdg
    /\ "VN30" \notin DOMAIN lookup_result.last_day_klgd

\* a fetch step has just run on a response that raises or carries an "error" key
FetchedBad ==
    /\ pc = "fetch"
    /\ response # NoResponse
    /\ \/ Raises(response)
       \/ response.body.t = "dict" /\ "error" \in DOMAIN response.body.d

\* C9 as stated: on such a response every fetch step returns success false with its
\* default payload
Claim_C9 ==
    FetchedBad =>
        LET record == args[Len(args)].d IN
        /\ record["success"] = FALSE
        /\ \A key \in DataKeys \cap DOMAIN record : record[key] = DefaultPayload(key)

\* C10 as stated: merge_inputs never raises on a list of dict records
Claim_C10 == (\A j \in 1..Len(args) : args[j].t = "dict") => pc # "raised"

-----------------------------------------------------------------------------
(* The workflow-status step *)

\* report_result.success is true
ReportGenerated ==
    /\ status_step.report_result.t = "dict"
    /\ "success" \in DOMAIN status_step.report_result.d
    /\ status_step.report_result.d["success"] = TRUE

\* the merge success_rate is at least one half (0 when the merge gave no metadata)
HalfSucceeded ==
    /\ "execution_metadata" \in DOMAIN status_step.merge_result
    /\ 2 * status_step.merge_result["execution_metadata"].successful_modules
          >= status_step.merge_result["execution_metadata"].total_modules
    /\ status_step.merge_result["execution_metadata"].total_modules > 0

\* C11: the returned status is SUCCESS exactly when the report was generated, else
\* PARTIAL_SUCCESS exactly when the success rate is at least 50%, else FAILED; the
\* placeholder COMPLETED is never returned
Thm_C11 ==
    status_step.pc = "returned" =>
        LET status == status_step.final_report.workflow_status IN
        /\ status \in {"SUCCESS", "PARTIAL_SUCCESS", "FAILED"}
        /\ status = "SUCCESS" <=> ReportGenerated
        /\ status = "PARTIAL_SUCCESS" <=> (~ReportGenerated /\ HalfSucceeded)
        /\ status = "FAILED" <=> (~ReportGenerated /\ ~HalfSucceeded)

\* no report, and exactly half of the modules succeeded
Wit_C11 ==
    /\ status_step.pc = "returned"
    /\ ~ReportGenerated
    /\ status_step.merge_result # EmptyDict
    /\ status_step.merge_result["execution_metadata"].success_rate = [num |-> 1, den |-> 2]
    /\ status_step.final_report.workflow_status = "PARTIAL_SUCCESS"

-----------------------------------------------------------------------------
(* upload_to_s3_with_retry *)

UploadReturned == uploader.pc = "returned" /\ uploader.max_retries = 3

\* the calls made before the last one
EarlierCalls == SubSeq(uploader.calls, 1, Len(uploader.calls) - 1)

FirstSuccessEnds ==
    uploader.returned = TRUE =>
        /\ uploader.calls # <<>>
        /\ uploader.calls[Len(uploader.calls)] = "ok"
        /\ \A n \in 1..Len(EarlierCalls) : EarlierCalls[n] # "ok"

\* the waits after the first n failed attempts, were each followed by 2^k seconds
RECURSIVE Doubling(_)
Doubling(n) == IF n = 0 THEN <<>> ELSE Append(Doubling(n - 1), Pow2(n - 1))

\* the original C12: at most 3 attempts, True at the first success, False only after
\* 3 failed attempts, and waits of 1s, 2s and 4s after the failed attempts
Orig_C12 ==
    UploadReturned =>
        /\ Len(uploader.calls) <= 3
        /\ FirstSuccessEnds
        /\ uploader.returned = FALSE =>
               /\ Len(uploader.calls) = 3
               /\ uploader.sleeps = Doubling(3)

\* the waits the code makes: 2^k after failed attempt k (from 0) when that attempt
\* raised ClientError and was not the last one
RECURSIVE WaitsFor(_, _)
WaitsFor(calls, retries) ==
    IF calls = <<>> THEN <<>>
    ELSE LET n == Len(calls)
             before == WaitsFor(SubSeq(calls, 1, n - 1), retries)
         IN  IF calls[n] = "ClientError" /\ n < retries
             THEN Append(before, Pow2(n - 1)) ELSE before

\* C12: at most 3 attempts; True at the first success and no attempt after it; False
\* after 3 failed attempts, or at once with no attempt when there is no S3 client;
\* a wait of 1s after a first and 2s after a second attempt that failed with
\* ClientError, no wait after the third and none after any other exception
Thm_C12 ==
    UploadReturned =>
        /\ Len(uploader.calls) <= 3
        /\ FirstSuccessEnds
        /\ uploader.returned = FALSE =>
               \/ ~uploader.s3_client /\ uploader.calls = <<>>
               \/ /\ Len(uploader.calls) = 3
                  /\ \A n \in 1..3 : uploader.calls[n] # "ok"
        /\ uploader.sleeps = WaitsFor(uploader.calls, 3)
        /\ \A n \in 1..Len(uploader.sleeps) : uploader.sleeps[n] \in {1, 2}

\* three attempts that fail with ClientError: waits of 1s and 2s, then False
Wit_C12 ==
    /\ UploadReturned
    /\ uploader.calls = <<"ClientError", "ClientError", "ClientError">>
    /\ uploader.sleeps = <<1, 2>>
    /\ uploader.returned = FALSE

-----------------------------------------------------------------------------
(* The configuration step and the dated keys *)

ConfigEnded == config.pc \in {"raised", "returned", "keyed"}

BadConfig ==
    \/ config.s3_bucket_name = <<>>
    \/ Len(config.s3_bucket_name) < 3
    \/ ~BucketMatches(config.s3_bucket_name)
    \/ config.s3_region = ""

\* C13: main raises ValueError when the bucket is empty, shorter than 3 characters or
\* does not match the pattern, or the region is empty; when it returns,
\* validation_passed is true, bucket and region are the inputs, and stock_market is
\* HSX, HNX or UPCOM, HSX for an empty or unknown market
Thm_C13 ==
    ConfigEnded =>
        /\ BadConfig => config.pc = "raised"
        /\ config.pc # "raised" =>
              /\ config.result.validation_passed = TRUE
              /\ config.result.s3_config.bucket = config.s3_bucket_name
              /\ config.result.s3_config.region = config.s3_region
              /\ config.result.stock_market \in {"HSX", "HNX", "UPCOM"}
              /\ config.stock_market \in {"", "NYSE"} => config.result.stock_market = "HSX"

\* a well-formed bucket name with an empty region
Wit_C13 ==
    /\ config.pc = "raised"
    /\ BucketMatches(config.s3_bucket_name)
    /\ Len(config.s3_bucket_name) = 4
    /\ config.s3_region = ""

BusinessDay(day) == day % 7 < 5

\* day is the most recent business day strictly before today
LastBusinessDayBefore(day, today) ==
    /\ day < today
    /\ BusinessDay(day)
    /\ \A d \in (day + 1)..(today - 1) : ~BusinessDay(d)

Keyed == config.pc = "keyed"

\* the key the lookup asks for ends with the date of its last trading day
KeyOfLastTradingDay ==
    /\ Len(config.target_key) >= 12
    /\ SubSeq(config.target_key, Len(config.target_key) - 11, Len(config.target_key))
          = strftime(config.last_trading_day) \o <<".", "c", "s", "v">>

Thm_C17 ==
    Keyed =>
        /\ config.result.s3_config.csv_key
              = config.base_name \o <<"_">> \o strftime(config.now) \o <<".", "c", "s", "v">>
        /\ config.base_name_found = config.base_name
        /\ config.target_key
              = generate_datetime_csv_key(config.base_name, config.last_trading_day)

\* a base name with a path separator and an underscore
Wit_C17 ==
    /\ Keyed
    /\ config.base_name = <<"d", "i", "r", "/", "r", "_", "x">>
    /\ config.base_name_found = <<"d", "i", "r", "/", "r", "_", "x">>
    /\ SubSeq(config.target_key, 1, 8) = <<"d", "i", "r", "/", "r", "_", "x", "_">>

-----------------------------------------------------------------------------
(* merge_inputs and its inputs *)

\* C15: during and after the call every entry the records of args refer to is what it
\* was before the call, and the entries of the returned index_summary are other
\* objects, holding the converted values
Thm_C15 ==
    /\ heap.pc # "idle" => \A a \in 1..Len(heap.before) : heap.store[a] = heap.before[a]
    /\ heap.pc = "returned" =>
           \A n \in 1..Len(heap.index_summary) :
              /\ heap.index_summary[n] > Len(heap.before)
              /\ "gtdg_last_day" \in DOMAIN heap.store[heap.index_summary[n]]

\* an entry with 5 000 000 shares: the report holds 5.0 and the entry still 5 000 000
Wit_C15 ==
    /\ heap.pc = "returned"
    /\ heap.index_summary # <<>>
    /\ \E a \in 1..Len(heap.before) :
          /\ heap.args[Len(heap.args)] = <<a>>
          /\ heap.store[a]["allQty"] = PNum(5, 6)
          /\ heap.store[heap.index_summary[1]]["allQty"] = PNum(5, 0)

-----------------------------------------------------------------------------
(* generate_report *)

ReportReturned == generator.pc = "returned"

\* upload_to_s3_with_retry returned True
Uploaded == generator.upload_success

\* the statement as written: success exactly when the upload succeeded
Orig_C16 == ReportReturned => (generator.result.success <=> Uploaded)

\* C16: generate_report ends in a returned dict; an exception in validation, CSV
\* generation, file handling or cleanup gives success false with error and message;
\* success is true exactly when the upload succeeded at one of its three calls and
\* nothing raised after it; s3_location is a location exactly when success is true;
\* data that fails validation is still written and handed to the upload
Thm_C16 ==
    ReportReturned =>
       /\ generator.result.success <=> (Uploaded /\ generator.raised = "no")
       /\ Uploaded => generator.s3_client /\ generator.upload_calls \in 1..DefaultRetries
       /\ generator.result.s3_location \notin {"absent", "None"}
             <=> generator.result.success
       /\ generator.result.message # ""
       /\ generator.raised # "no" =>
             /\ ~generator.result.success
             /\ generator.result.error = generator.raised
       /\ (generator.validation_result.raised = "no"
             /\ ~generator.validation_result.valid
             /\ generator.raised = "no") =>
             /\ generator.temp_file = "removed"
             /\ generator.s3_client => generator.upload_calls >= 1

\* the upload succeeded at the third call and reading the file's size raised
Wit_C16 ==
    /\ ReportReturned
    /\ Uploaded
    /\ generator.upload_calls = DefaultRetries
    /\ generator.raised = "OSError"
    /\ ~generator.result.success

\* data without top_sectors: valid is false, and the report was uploaded
Wit_C16_Invalid ==
    /\ ReportReturned
    /\ generator.validation_result.raised = "no"
    /\ ~generator.validation_result.valid
    /\ generator.result.success

-----------------------------------------------------------------------------
(* The chunk upload *)

ChunksEnded == chunk_upload.pc \in {"returned", "raised"}

\* the batches that failed because max_retries requests in a row failed
Exhausted ==
    {n \in 1..Len(chunk_upload.errors) : chunk_upload.errors[n] = "UploadError"}

\* the statement as written: None exactly when a batch failed after its retries
Orig_C18 ==
    chunk_upload.pc = "returned" =>
        (chunk_upload.returned = "None" <=> Exhausted # {})

\* C18: main returns the session_id exactly when no batch failed and None exactly
\* when a batch failed; a batch fails after max_retries failed requests, and also at
\* once on an answer that is not a JSON object or with no attempt allowed; an empty
\* chunk list gives the session_id without a request; a missing session_id raises,
\* and so does a batch size of 0
Thm_C18 ==
    /\ chunk_upload.pc = "returned" =>
          /\ chunk_upload.returned = chunk_upload.session_id
                <=> chunk_upload.failed_batches = 0
          /\ chunk_upload.returned = "None" <=> chunk_upload.failed_batches >= 1
          /\ chunk_upload.session_id # ""
          /\ chunk_upload.total_chunks = 0 => chunk_upload.posts = 0
          /\ chunk_upload.failed_batches = Len(chunk_upload.errors)
          /\ \A n \in 1..Len(chunk_upload.errors) :
                chunk_upload.errors[n] = "TypeError" <=> chunk_upload.max_retries = 0
          /\ Cardinality(Exhausted) * chunk_upload.max_retries <= chunk_upload.posts
    /\ chunk_upload.pc = "raised" =>
          /\ chunk_upload.posts = 0
          /\ chunk_upload.raised = "UploadError" <=> chunk_upload.session_id = ""
          /\ chunk_upload.raised = "ValueError" <=>
                (chunk_upload.session_id # "" /\ chunk_upload.batch_size = 0
                    /\ chunk_upload.total_chunks > 0)
    /\ (chunk_upload.pc # "idle" /\ chunk_upload.session_id = "") =>
          chunk_upload.pc \in {"main", "raised"}

\* three chunks in batches of two: the first batch is uploaded at once, the second
\* is answered with a JSON list at its first request, and main returns None
Wit_C18 ==
    /\ chunk_upload.pc = "returned"
    /\ chunk_upload.returned = "None"
    /\ chunk_upload.total_chunks = 3
    /\ chunk_upload.batch_size = 2
    /\ chunk_upload.max_retries = 3
    /\ chunk_upload.posts = 2
    /\ chunk_upload.successful_batches = 1
    /\ chunk_upload.errors = <<"AttributeError">>

-----------------------------------------------------------------------------
(* download_document *)

DownloadEnded == downloader.pc \in {"returned", "raised"}

LastGet == downloader.gets[Len(downloader.gets)]

\* the statement as written: a download that fails has made max_retries requests
Orig_C19 ==
    downloader.pc = "raised" => Len(downloader.gets) = downloader.max_retries

\* C19: download_document makes at most max_retries GETs; it goes on after a
\* request error or an HTTP error status and after nothing else; it returns at the
\* first non-empty body and raises DownloadError at the first empty body, with no
\* retry; it waits retry_delay * k after the k-th failed request that is not the
\* max_retries-th, and raises DownloadError after the max_retries-th with no wait
Thm_C19 ==
    /\ downloader.pc # "idle" =>
          /\ Len(downloader.gets) <= downloader.max_retries
          /\ \A k \in 1..Len(downloader.sleeps) :
                /\ downloader.gets[k] \in RequestFailures
                /\ downloader.sleeps[k] = downloader.retry_delay * k
    /\ downloader.pc = "attempt" => Len(downloader.sleeps) = Len(downloader.gets)
    /\ (DownloadEnded /\ downloader.max_retries > 0) =>
          /\ Len(downloader.sleeps) = Len(downloader.gets) - 1
          /\ downloader.returned = "content" <=> LastGet = "content"
          /\ downloader.raised = "Empty content" <=> LastGet = "empty"
          /\ downloader.raised = "Failed to download" <=>
                (LastGet \in RequestFailures
                    /\ Len(downloader.gets) = downloader.max_retries)
    /\ (DownloadEnded /\ downloader.max_retries = 0) =>
          (downloader.returned = "None" /\ downloader.gets = <<>>)

\* three attempts allowed, a delay of 2: the first GET times out, 2 seconds pass,
\* the second GET answers an empty body and download_document raises at once
Wit_C19 ==
    /\ downloader.pc = "raised"
    /\ downloader.max_retries = 3
    /\ downloader.retry_delay = 2
    /\ downloader.gets = <<"ConnectionError", "empty">>
    /\ downloader.sleeps = <<2>>

\* every attempt of four fails: waits of 1, 2 and 3 and none after the fourth
Wit_C19_Exhausted ==
    /\ downloader.pc = "raised"
    /\ downloader.retry_delay = 1
    /\ Len(downloader.gets) = 4
    /\ downloader.sleeps = <<1, 2, 3>>

-----------------------------------------------------------------------------
(* get_secret *)

SecretCalled == secret_manager.pc # "idle" /\ secret_manager.calls > 0

\* C20: a key is loaded from the variable store at most once per SecretManager; a
\* call for a key in the cache returns the cached value with no store call; a failed
\* load raises and leaves the key out of the cache; no call changes the entry of
\* another key
Thm_C20 ==
    /\ secret_manager.pc # "idle" =>
          \A k \in SecretKeys :
             /\ secret_manager.loads[k] <= 1
             /\ k \in DOMAIN secret_manager._cache <=> secret_manager.loads[k] = 1
    /\ SecretCalled =>
          LET key == secret_manager.key
              before == secret_manager.before
              after == secret_manager._cache
          IN  /\ key \in DOMAIN before =>
                    /\ ~secret_manager.store_called
                    /\ secret_manager.raised = "no"
                    /\ secret_manager.returned = before[key]
                    /\ after = before
              /\ key \notin DOMAIN before => secret_manager.store_called
              /\ secret_manager.raised # "no" =>
                    /\ key \notin DOMAIN after
                    /\ after = before
              /\ secret_manager.raised = "no" =>
                    /\ key \in DOMAIN after
                    /\ secret_manager.returned = after[key]
              /\ \A k \in SecretKeys \ {key} :
                    /\ k \in DOMAIN after <=> k \in DOMAIN before
                    /\ k \in DOMAIN before => after[k] = before[k]

\* the first load of the key failed, the second succeeded, and the third call was
\* served from the cache: the store was read twice and not a third time
Wit_C20 ==
    /\ SecretCalled
    /\ secret_manager.calls >= 3
    /\ secret_manager.key \in DOMAIN secret_manager.before
    /\ secret_manager.reads[secret_manager.key] = 2
    /\ secret_manager.loads[secret_manager.key] = 1
    /\ "u/other/key" \in DOMAIN secret_manager._cache

-----------------------------------------------------------------------------
(* The top and bottom indices *)

Extracted == extractor.pc = "returned" /\ extractor.result.success

AllIndices == all_indices_of(extractor.market_data.market_indices)

NamesOf(xs) == {xs[k].name : k \in 1..Len(xs)}

Descending(xs) == \A k \in 1..(Len(xs) - 1) : xs[k].percentage >= xs[k + 1].percentage

\* top_gaining_indices: the largest positive percentages, at most top_count, descending
GainingAsStated ==
    LET top == extractor.result.top_gaining_indices
        positive == {k \in 1..Len(AllIndices) : AllIndices[k].percentage > 0}
    IN  /\ Len(top) = Min2(extractor.top_count, Cardinality(positive))
        /\ Descending(top)
        /\ \A k \in 1..Len(top) : top[k].percentage > 0
        /\ \A k \in 1..Len(AllIndices), j \in 1..Len(top) :
              AllIndices[k].name \notin NamesOf(top) =>
                 (AllIndices[k].percentage <= 0
                     \/ AllIndices[k].percentage <= top[j].percentage)

\* top_losing_indices: the top_count lowest percentages of all indices
LosingAsStated ==
    LET top == extractor.result.top_losing_indices
    IN  /\ Len(top) = Min2(extractor.top_count, Len(AllIndices))
        /\ \A k \in 1..Len(AllIndices), j \in 1..Len(top) :
              AllIndices[k].name \notin NamesOf(top) =>
                 top[j].percentage <= AllIndices[k].percentage

\* C21: for non-empty market indices and top_count >= 1, top_gaining_indices are the
\* at most top_count largest positive percentages in descending order and
\* top_losing_indices are the top_count lowest percentages of all indices
Claim_C21 == Extracted => (GainingAsStated /\ LosingAsStated)

\* what main does: the gaining side is as stated, and the losing side is as stated
\* whenever no more than top_count indices declined
Holds_C21 ==
    Extracted =>
       /\ GainingAsStated
       /\ Cardinality({k \in 1..Len(AllIndices) : AllIndices[k].percentage < 0})
             <= extractor.top_count => LosingAsStated

-----------------------------------------------------------------------------
(* The counters of merge_inputs *)

\* the records the loop skips
EmptyRecords == (1..Len(args)) \ NonEmpty

\* the non-empty records whose success field is there and false, in the order of args
FailedRecords == NonEmpty \ SuccessfulRecords

\* the n-th of the failed records
NthFailed(n) ==
    CHOOSE j \in FailedRecords : Cardinality({h \in FailedRecords : h <= j}) = n

\* C22: successful_modules + len(errors) + the number of empty records is
\* total_modules, success_rate lies between 0 and 1, and errors holds one line for
\* each non-empty record with success false, in order, tagged with the record's
\* index in args and carrying its error text
Thm_C22 ==
    Returned =>
        /\ Meta.successful_modules + Len(Meta.errors) + Cardinality(EmptyRecords)
              = Meta.total_modules
        /\ 0 <= Meta.success_rate.num
        /\ Meta.success_rate.num <= Meta.success_rate.den
        /\ Len(Meta.errors) = Cardinality(FailedRecords)
        /\ \A n \in 1..Len(Meta.errors) :
              LET j == NthFailed(n)
              IN  /\ Meta.errors[n][2] = j - 1
                  /\ Meta.errors[n][4] = IF "error" \in DOMAIN args[j].d
                                         THEN args[j].d["error"] ELSE "Unknown error"

\* an empty record and then a failed one: one success of none, one error line
\* "Module 1: boom", and 0 + 1 + 1 = 2
Wit_C22 ==
    /\ Returned
    /\ Len(args) = 2
    /\ args[1] = PNone
    /\ FailedRecords = {2}
    /\ Meta.successful_modules = 0
    /\ Meta.errors = <<<<"Module ", 1, ": ", "boom">>>>

-----------------------------------------------------------------------------
(* The shape of the unified report *)

\* the 8 data keys of the report, as the claim lists them
RecognizedKeys ==
    {"impact_up", "impact_down", "index_summary", "khoi_ngoai", "top_interested",
     "top_netforeign", "khoi_tu_doanh", "top_sectors"}

\* the fields a fetch step adds about itself
AdapterFields == {"success", "error", "fallback_used", "data_quality"}

\* the merged map as it was when the validator ran on it
Validated == [key \in (DOMAIN report.d) \ {"data_quality"} |-> report.d[key]]

\* C23: the keys of the report are among the 8 data keys, execution_metadata and
\* data_quality, the last two are always there, no success, error or fallback_used
\* field of a record is copied, and data_quality is the validator's verdict on the
\* merged map, not a record's own data_quality block
Thm_C23 ==
    Returned =>
        /\ DOMAIN report.d \subseteq RecognizedKeys \cup {"execution_metadata", "data_quality"}
        /\ {"execution_metadata", "data_quality"} \subseteq DOMAIN report.d
        /\ Quality = validate_data_quality(Validated)
        /\ DOMAIN Quality = {"passed", "issues", "warnings", "timestamp"}

\* the sectors step gave a record with its own data_quality block and a success
\* field, and the report holds top_sectors and the validator's data_quality
Wit_C23 ==
    /\ Returned
    /\ \E j \in 1..Len(args) :
          /\ Truthy(args[j])
          /\ {"success", "data_quality", "top_sectors"} \subseteq DOMAIN args[j].d
          /\ args[j].d["data_quality"] # Quality
    /\ "top_sectors" \in DOMAIN report.d

\* no step ran: the report of an empty list holds the two added keys and nothing else
Wit_C23_Empty ==
    /\ Returned
    /\ args = <<>>
    /\ DOMAIN report.d = {"execution_metadata", "data_quality"}

-----------------------------------------------------------------------------
(* The legacy merge_inputs, called twice *)

CalledTwice == legacy.pc = "call" /\ Len(legacy.reports) = 2

\* C24: two calls on the same args return equal reports, and the entries of the
\* caller's index_summary lists are after a call what they were before it
Claim_C24 ==
    /\ CalledTwice => legacy.reports[1] = legacy.reports[2]
    /\ (legacy.pc = "call" /\ legacy.calls >= 1) => legacy.store = legacy.before

\* what merge_inputs does: every entry listed in an index_summary of args with
\* numeric values holds, after n calls, its raw values divided n times
Holds_C24 ==
    (legacy.pc = "call" /\ legacy.calls >= 1) =>
        \A j \in 1..Len(legacy.args) :
            "index_summary" \in DOMAIN legacy.args[j] =>
                \A k \in 1..Len(legacy.args[j]["index_summary"]) :
                    LET a == legacy.args[j]["index_summary"][k]
                    IN  legacy.before[a]["allQty"].m # 0 =>
                            legacy.store[a]["allQty"] # legacy.before[a]["allQty"]

-----------------------------------------------------------------------------
(* From the report of one run to the lookup of the next *)

RoundTripped == roundtrip.pc = "returned"

\* the ids the generator writes a row for
WrittenIds == {index_mapping[k].data : k \in 1..Len(index_mapping)}

\* the entry of the report the row of id is written from
EntryOf(id) == index_dict_get(roundtrip.index_summary, id)

\* the value of the entry of id under key is a number or the text of one
NumericIn(id, key) == Truthy(EntryOf(id)) /\ Numeric(EntryOf(id).d, key)

\* the row of id is a row of values: float() raised on none of its three cells
RowOfValues(id) ==
    /\ Truthy(EntryOf(id))
    /\ ~safe_float_format(EntryOf(id).d, "indexValue").raised
    /\ ~safe_float_format(EntryOf(id).d, "allQty").raised
    /\ ~safe_float_format(EntryOf(id).d, "allValue").raised

\* the lookup gives the value of key, rounded to 2 decimals, under id
ReadBack(map, id, key) ==
    /\ id \in DOMAIN map
    /\ map[id] = Round(Float(EntryOf(id).d[key]).val, 2)

\* the statement as written: every id of the mapping whose entry has a numeric allQty
\* and allValue is read back with both values
Orig_C25 ==
    RoundTripped =>
        \A id \in WrittenIds :
            (NumericIn(id, "allQty") /\ NumericIn(id, "allValue")) =>
                /\ ReadBack(roundtrip.result.last_day_klgd, id, "allQty")
                /\ ReadBack(roundtrip.result.last_day_gtdg, id, "allValue")

\* C25: the lookup succeeds; for an id of the mapping whose row is a row of values,
\* a numeric allQty is read back as last_day_klgd[id] and a numeric allValue as
\* last_day_gtdg[id], rounded to 2 decimals; an N/A cell, an N/A row (no entry for
\* the id, or an indexValue, allQty or allValue that float() rejects), an id outside
\* the mapping and the rows before the headers give no entry
Thm_C25 ==
    RoundTripped =>
        /\ roundtrip.result.success
        /\ roundtrip.headers = csv_headers
        /\ \A id \in WrittenIds :
              /\ IF RowOfValues(id) /\ NumericIn(id, "allQty")
                 THEN ReadBack(roundtrip.result.last_day_klgd, id, "allQty")
                 ELSE id \notin DOMAIN roundtrip.result.last_day_klgd
              /\ IF RowOfValues(id) /\ NumericIn(id, "allValue")
                 THEN ReadBack(roundtrip.result.last_day_gtdg, id, "allValue")
                 ELSE id \notin DOMAIN roundtrip.result.last_day_gtdg
        /\ DOMAIN roundtrip.result.last_day_klgd \subseteq WrittenIds
        /\ DOMAIN roundtrip.result.last_day_gtdg \subseteq WrittenIds

\* VNINDEX with 12.346 and 9.0 comes back as 12.35 and 9.0; VN30 with 7.5 and 2.25
\* and the indexValue "-" is written as an N/A row and comes back in neither map
Wit_C25 ==
    /\ RoundTripped
    /\ roundtrip.result.last_day_klgd = One("VNINDEX", PNum(1235, -2))
    /\ roundtrip.result.last_day_gtdg = One("VNINDEX", PNum(9, 0))
    /\ NumericIn("VN30", "allQty")
    /\ NumericIn("VN30", "allValue")
    /\ ~RowOfValues("VN30")

-----------------------------------------------------------------------------
(* The previous-day lookup of an s3_config without a csv_key *)

PreviousDayReturned == previous_day.pc = "returned"

NoCsvKey == previous_day.s3_config.csv_key \in {Absent, PStr(<<>>)}

\* C26: with no csv_key, or an empty one, the lookup returns the failure result
\* "Invalid base_name structure in s3_config." and requests no object
Claim_C26 ==
    (PreviousDayReturned /\ NoCsvKey) =>
        /\ previous_day.result = InvalidBaseName
        /\ previous_day.requests = <<>>

\* what the lookup does instead: split gives one empty piece, the base name is empty,
\* the result is never the invalid-base-name failure, and with a bucket the object
\* "_<date>.csv" is requested once and its answer decides the result
Holds_C26 ==
    (PreviousDayReturned /\ NoCsvKey) =>
        /\ base_name_parts_of(previous_day.s3_config) = << <<>> >>
        /\ previous_day.result # InvalidBaseName
        /\ previous_day.target_key
              = <<"_">> \o strftime(get_last_trading_day(previous_day.now)) \o DotCsv
        /\ IF previous_day.s3_config.bucket = Absent
           THEN /\ previous_day.requests = <<>>
                /\ previous_day.result
                      = LookupFailed("Unexpected error processing trading day's CSV")
           ELSE /\ previous_day.requests
                      = <<[Bucket |-> previous_day.s3_config.bucket.s,
                           Key |-> previous_day.target_key]>>
                /\ previous_day.result = lookup_of(previous_day.object)

\* an empty csv_key, a bucket, and the lookup succeeds with values read from "_<date>.csv"
Reached_C26 ==
    /\ PreviousDayReturned
    /\ previous_day.s3_config.csv_key = PStr(<<>>)
    /\ Len(previous_day.requests) = 1
    /\ previous_day.result.success
    /\ previous_day.result.last_day_gtdg # EmptyDict

-----------------------------------------------------------------------------
(* download_multiple_documents *)

DocumentsReturned == documents.pc = "returned"

\* the places of the list whose download gave a content
Succeeded_At(id) ==
    {n \in 1..Len(documents.ended) :
        documents.document_ids[n] = id /\ documents.ended[n] = "content"}

IsContent(value) == value.t = "bytes" /\ value.b # <<>>

\* C27: for every max_download_retries >= 0 the returned map holds an id only if a
\* download of it succeeded, every value is a non-empty byte string, and every
\* document of the list has been tried
Claim_C27 ==
    DocumentsReturned =>
        /\ \A id \in DOMAIN documents.downloaded_content :
              /\ Succeeded_At(id) # {}
              /\ IsContent(documents.downloaded_content[id])
        /\ Len(documents.ended) = Len(documents.document_ids)

\* what holds: with max_download_retries >= 1 the map holds exactly the ids with a
\* successful download, each with a non-empty byte string, a failed document is
\* followed by the downloads of the others, and every document got at least one
\* request; with max_download_retries 0 no request is sent and the map holds None for
\* every id of the list
Holds_C27 ==
    DocumentsReturned =>
        /\ Len(documents.ended) = Len(documents.document_ids)
        /\ IF documents.max_retries > 0
           THEN /\ DOMAIN documents.downloaded_content
                      = {id \in DocumentIds : Succeeded_At(id) # {}}
                /\ \A id \in DOMAIN documents.downloaded_content :
                      IsContent(documents.downloaded_content[id])
                /\ \A n \in 1..Len(documents.document_ids) :
                      documents.gets[n] \in 1..documents.max_retries
           ELSE /\ DOMAIN documents.downloaded_content
                      = {documents.document_ids[n] : n \in 1..Len(documents.document_ids)}
                /\ \A id \in DOMAIN documents.downloaded_content :
                      documents.downloaded_content[id] = PNone
                /\ \A n \in 1..Len(documents.document_ids) : documents.gets[n] = 0

\* the first document fails after all its attempts and the second is downloaded
Reached_C27 ==
    /\ DocumentsReturned
    /\ documents.document_ids = <<"d1", "d2">>
    /\ documents.ended = <<"raised", "content">>
    /\ documents.gets[1] = documents.max_retries
    /\ documents.max_retries > 1
    /\ DOMAIN documents.downloaded_content = {"d2"}

=============================================================================
